---- MODULE Spec2Model ----
(***************************************************************************)
(* A model of the EEW-WebUI dispatcher (src/redis_fastapi_backend.py):     *)
(* the ConnectionManager registry, the per-connection websocket handler,   *)
(* the three background readers (wave, pick, eew) with their fanout loops, *)
(* and the historical pick query.                                          *)
(*                                                                         *)
(* Python strings are modelled as tuples of one-character strings, so that *)
(* str.split and str.endswith are computed and not assumed.  A Python      *)
(* dict is modelled with its insertion-ordered entry table (deleted keys   *)
(* leave a tombstone), which is what a suspended dict iterator walks.      *)
(***************************************************************************)
EXTENDS Integers, Sequences, FiniteSets, TLC

\* ------------------------------------------------------------------ bounds
NConn == 2          \* websocket objects that may ever connect
MaxRecs == 2        \* records ever appended to the wave streams
MaxPicks == 2       \* records ever appended to the pick stream
MaxEews == 1        \* records ever appended to the eew stream
MaxUpd == 1         \* largest update_sec a pick record carries
MaxBatch == 2       \* wave entries in a directly supplied batch
MaxWave == 13       \* samples of a wave entry to downsample
MaxChunks == 2      \* stored records of one stream inside a requested range
MaxSig == 3         \* samples of an array given to the signal processing
MaxTrace == 203     \* samples of the longest trace that is tapered
MaxRingUpd == 3     \* update_sec of the picks of the ring: 0..MaxRingUpd
MaxNow == 20        \* seconds the pick listener is followed for
MaxRange == 6       \* pick records in the range given to get_picks
MaxMsgs == 5        \* messages the ring reader reads
QUEUE_MAXSIZE == 2  \* QUEUE_MAXSIZE of the environment
MaxWrites == 4      \* circular_write calls
MaxSamples == 8     \* samples ever written to the station buffers
WINDOW_SEC == 3     \* seconds of a station buffer (WINDOW_SEC of the environment)

\* ------------------------------------------------------- program constants
XREAD_COUNT == 100      \* xread(..., count=100) of redis_wave_reader
PICK_COUNT == 10        \* xread(..., count=10) of the pick and eew readers
DEFAULT_WIDTH == 1000   \* client_resolutions.get(websocket, 1000)
SR == 1                 \* SAMPLE_RATE of the environment, one sample a second

\* ----------------------------------------------------------------- strings
DOT == "."
ALL_Z == <<"_", "_", "A", "L", "L", "_", "Z", "_", "_">>
SM == <<"S", "M">>
TW == <<"T", "W">>
LOC01 == <<"0", "1">>
HLZ == <<"H", "L", "Z">>
HLE == <<"H", "L", "E">>
STA_A == <<"A">>
STA_B == <<"B">>

Stations == {STA_A, STA_B}
Channels == {HLZ, HLE}
Codes == Stations \cup {ALL_Z}

\* str.endswith("Z")
EndsWithZ(s) == Len(s) > 0 /\ s[Len(s)] = "Z"

\* str.split("."): the tuple of the pieces between the dots
RECURSIVE SplitFrom(_, _, _)
SplitFrom(s, i, cur) ==
    IF i > Len(s) THEN <<cur>>
    ELSE IF s[i] = DOT THEN <<cur>> \o SplitFrom(s, i + 1, <<>>)
    ELSE SplitFrom(s, i + 1, Append(cur, s[i]))

Split(s) == SplitFrom(s, 1, <<>>)

\* f"{network}.{station}.{location}.{channel}"
WaveIdOf(network, station, location, channel) ==
    network \o <<DOT>> \o station \o <<DOT>> \o location \o <<DOT>> \o channel

\* convert_to_tsmip_legacy_naming
convert_to_tsmip_legacy_naming(wave) ==
    IF wave.network = TW
    THEN [wave EXCEPT !.network = SM, !.location = LOC01]
    ELSE wave

\* ------------------------------------------------------------------- state
Conn == 1..NConn
NoConn == 0

VARIABLES
    active_connections,   \* ConnectionManager.active_connections (a list)
    sub_entries,          \* entry table of the subscribed_stations dict
    subscribed_stations,  \* ConnectionManager.subscribed_stations
    client_resolutions,   \* ConnectionManager.client_resolutions
    hpc,                  \* position of each websocket_endpoint coroutine
    broken,               \* connections whose transport no longer carries a send
    stalled               \* connections that stopped reading: a send to one never ends

registry == <<active_connections, sub_entries, subscribed_stations,
              client_resolutions>>
mgrVars == <<registry, hpc, broken, stalled>>

VARIABLES
    bus,            \* the wave streams of the bus: stream key -> its records
    stream_ids,     \* redis_wave_reader: last-seen id per tailed key
    scanned,        \* redis_wave_reader: last_scan_time is no longer 0
    wpc,            \* redis_wave_reader: "poll", "send" (suspended in a send),
                    \* "sleep" (asyncio.sleep after a fanout or in the except clause)
    wave_batch,     \* the tick being fanned out: wave_id -> entry
    it,             \* the dict iterator of send_wave_packet's for loop
    send_to,        \* the connection the suspended send writes to
    send_frame,     \* the wave_ids of the client_packet being sent
    fan_log,        \* history: what the fanout's last step did for each client it reached
    delivered,      \* history: per stream key, the samples handed to the fanout
    audit,          \* whether this run keeps the delivered history
    tick_owed,      \* history: the clients registered when the running fanout
                    \* began, connected and with the same subscription since
    tick_sent,      \* history: the clients the running fanout has sent to
    wave_missed,    \* history: the clients the last fanout ended without sending to
    returned        \* history: per stream key, the ids of the records xread returned

waveRest == <<bus, stream_ids, scanned, wpc, wave_batch, it, send_to,
              send_frame, fan_log, delivered, audit, tick_sent, wave_missed,
              returned>>

waveVars == <<waveRest, tick_owed>>

VARIABLES
    feed,           \* the "pick" and "eew" streams of the bus
    last_id,        \* redis_pick_reader / redis_eew_reader: last_id
    xread_tip,      \* the stream position an in-flight xread waits behind
    bpc,            \* reader position: "idle", "wait" (in xread), "send"
    resp,           \* messages of the xread response not yet handled
    packet,         \* the packet being broadcast
    bidx,           \* index of the list iterator over active_connections
    bc_throughout,  \* history: connections registered since the broadcast began
    bc_sent,        \* history: connections the broadcast called send_json on
    bc_missed,      \* history: at the end of a broadcast, throughout minus sent
    sent_log,       \* history: the packets each reader sent, with the receiver
    first_tip       \* history: the length of the stream at the reader's first xread

bcVars == <<feed, last_id, xread_tip, bpc, resp, packet, bidx, bc_throughout,
            bc_sent, bc_missed, sent_log, first_tip>>

VARIABLES
    send_failed,    \* history: connections on which a fanout send has raised
    hist_picks,     \* the list get_historical_picks returned last
    hist_range,     \* the (start, end) it was asked for
    flt_in,         \* a subscription set and a wave batch given to the filter
    flt_out,        \* the filtered_batch computed from them
    last_subscribe  \* history: the last subscribe() call and the set it found

\* dispatcher.py
VARIABLES
    buffers,        \* station -> the station's circular buffer
    write_idx,      \* station -> next write position
    disp_written,   \* history: station -> every sample written, in write order
    disp_sizes,     \* history: station -> the sizes of the writes, in order
    window          \* the last array assemble_last_window returned

dispVars == <<buffers, write_idx, disp_written, disp_sizes, window>>

VARIABLES
    down            \* the last wave entry downsampled for a client, and its input

\* request_historical_data and the handler's receive loop
VARIABLES
    hq,             \* the historical request in progress: its position, the
                    \* packets still to send and, as history, what it
                    \* read and the frames it sent
    proto           \* history: the last frame a handler could not process

histVars == <<hq, proto>>

\* proxy.py
VARIABLES
    reads,              \* stats["reads"]
    scheduled,          \* the callbacks call_soon_threadsafe has scheduled
    message_queue,      \* the queue between the reader and the broadcaster
    drops_queue_full,   \* stats["drops_queue_full"]
    payload,            \* the message the broadcaster holds
    msgs_sent,          \* stats["msgs_sent"]
    broadcasts          \* history: the messages broadcast, in order

proxyVars == <<reads, scheduled, message_queue, drops_queue_full, payload,
               msgs_sent, broadcasts>>

VARIABLES
    bus_error       \* history: the bus call of the live reader that raised
                    \* last, and whether any has raised

\* the frames handed to each connection's websocket
VARIABLES
    wire            \* history: connection -> the events of the frames whose
                    \* send_json was called on it, in call order (or NoWire
                    \* where that history is not kept)

\* batch_signal_processing and the historical taper
VARIABLES
    sp              \* the call under study: its input arrays and what the
                    \* batch, the per-array processing and the taper return

\* the dispatcher's reader task
VARIABLES
    reader          \* redis_reader_loop: where the task is, and the packet
                    \* it is handling

\* eew_backend.py: the pick listener of the ring
VARIABLES
    pick_buffer,    \* pick_buffer: pick id -> the pick stored
    ew_now,         \* time.time()
    ew_msg          \* history: the message the listener handled last

ewVars == <<pick_buffer, ew_now, ew_msg>>

\* model/redis_adapter.py
VARIABLES
    gp              \* the get_picks call under study: the records of the
                    \* range, max_picks and the list returned

\* startup_event / shutdown_event
VARIABLES
    background_tasks,   \* reader task -> the await it is suspended in,
                        \* whether a cancellation is pending, and, as
                        \* history, the await its CancelledError was thrown at
    shutdown            \* where shutdown_event is

bgVars == <<background_tasks, shutdown>>

\* dispatcher.py: one WebSocket of the binary dispatcher
VARIABLES
    dws             \* whether it is subscribed, the frames handed to it in
                    \* call order with the coroutine that sent each, and
                    \* the send the reader loop and the handler are
                    \* suspended in

\* eew_backend.py: the Socket.IO sessions
VARIABLES
    sio             \* the connected sessions, the module's
                    \* subscribed_stations dict, and the last wave_packet
                    \* emitted with the sessions it went to and, as
                    \* history, the dict at that moment

tail5 == <<dws, sio>>
tail4 == <<bgVars, tail5>>
tail3 == <<gp, tail4>>
tail2 == <<ewVars, tail3>>
tailVars == <<reader, tail2>>


exceptWire == <<dispVars, down, histVars, proxyVars, bus_error, sp, tailVars>>
extVars == <<exceptWire, wire>>
exceptSp == <<dispVars, down, histVars, proxyVars, bus_error, wire, tailVars>>

\* what the operations on one part of this state leave alone
exceptDisp == <<down, histVars, proxyVars, bus_error, wire, sp, tailVars>>
exceptDispReader == <<down, histVars, proxyVars, bus_error, wire, sp, tail2>>
exceptDown == <<dispVars, histVars, proxyVars, bus_error, wire, sp, tailVars>>
exceptHq == <<dispVars, down, proto, proxyVars, bus_error, sp, tailVars>>
exceptHqWire == <<exceptHq, wire>>
exceptProxy == <<dispVars, down, histVars, bus_error, wire, sp, tailVars>>
exceptBusError == <<dispVars, down, histVars, proxyVars, wire, sp, tailVars>>

coreAux == <<send_failed, hist_picks, hist_range, flt_in, flt_out,
             last_subscribe>>

auxVars == <<coreAux, extVars>>

\* the state of the parts modelled before the dispatcher's reader task
baseVars == <<mgrVars, waveVars, bcVars, coreAux, dispVars, down, histVars,
              proxyVars, bus_error, wire, sp>>

vars == <<mgrVars, waveVars, bcVars, auxVars>>

\* ------------------------------------------------------------ small helpers
NoWire == <<>>

\* websocket.send_json, called on one connection: whatever the calls'
\* suspensions, the frames leave the socket in the order of the calls
SendOrderReversed(sent, event) == <<event>> \o sent
send_json(sent, event) == Append(sent, event)

\* the history after send_json(event) is called on connection ws
WireSend(ws, event) ==
    IF wire = NoWire THEN wire ELSE [wire EXCEPT ![ws] = send_json(@, event)]

\* the broadcast event of a feed stream
FeedEvent(k) == IF k = "pick" THEN "pick_packet" ELSE "eew_packet"

Range(f) == {f[x] : x \in DOMAIN f}
Max(a, b) == IF a >= b THEN a ELSE b
Min(a, b) == IF a <= b THEN a ELSE b
EmptyMap == <<>>

RECURSIVE Flatten(_)
Flatten(ss) == IF ss = <<>> THEN <<>> ELSE Head(ss) \o Flatten(Tail(ss))

\* list.remove(x): drops the first occurrence of x
RECURSIVE ListRemove(_, _)
ListRemove(l, x) ==
    IF l = <<>> THEN <<>>
    ELSE IF Head(l) = x THEN Tail(l)
    ELSE <<Head(l)>> \o ListRemove(Tail(l), x)

\* d[k] = v on a dict modelled as a function
DictSet(d, k, v) == [x \in DOMAIN d \cup {k} |-> IF x = k THEN v ELSE d[x]]
\* del d[k]
DictDel(d, k) == [x \in DOMAIN d \ {k} |-> d[x]]

\* ------------------------------------------------- ConnectionManager
\* connect(): accept, register, then suspend in the send of connect_init
ManagerConnect(ws) ==
    /\ active_connections' = Append(active_connections, ws)
    /\ sub_entries' = Append(sub_entries, ws)
    /\ subscribed_stations' = DictSet(subscribed_stations, ws, {})
    /\ UNCHANGED client_resolutions

\* disconnect(): purge the connection from the three indexes
ManagerDisconnect(ws) ==
    /\ active_connections' = ListRemove(active_connections, ws)
    /\ sub_entries' = [i \in DOMAIN sub_entries |->
                          IF sub_entries[i] = ws THEN NoConn ELSE sub_entries[i]]
    /\ subscribed_stations' = DictDel(subscribed_stations, ws)
    /\ client_resolutions' = DictDel(client_resolutions, ws)

\* a subscribe() that adds the list to the set the connection has
SubscribedMerged(ws, stations) ==
    DictSet(subscribed_stations, ws,
            subscribed_stations[ws] \cup Range(stations))

\* subscribed_stations after subscribe(ws, stations): set(stations) when the
\* list is non-empty, set() otherwise; the entry is assigned, never merged
SubscribedAfter(ws, stations) ==
    DictSet(subscribed_stations, ws,
            IF stations # <<>> THEN Range(stations) ELSE {})

\* subscribe()
ManagerSubscribe(ws, stations) ==
    /\ subscribed_stations' = SubscribedAfter(ws, stations)
    /\ UNCHANGED <<active_connections, sub_entries, client_resolutions>>

\* set_resolution()
ManagerSetResolution(ws, width) ==
    /\ client_resolutions' = DictSet(client_resolutions, ws, width)
    /\ UNCHANGED <<active_connections, sub_entries, subscribed_stations>>

\* --------------------------------------------------- downsampling helpers
POINTS_PER_PIXEL == 1
FIXED_TIME_WINDOW == 120
RAISES == 0     \* stands for "the call raises" where a factor is expected

\* calculate_downsample_factor(): int(total_points / target_points), at
\* least 1; the float division raises ZeroDivisionError on a zero target
calculate_downsample_factor(samprate, resolution_width) ==
    LET total_points == FIXED_TIME_WINDOW * samprate
        target_points == resolution_width * POINTS_PER_PIXEL
    IN IF target_points = 0 THEN RAISES
       ELSE IF target_points < 0 THEN 1
       ELSE Max(1, total_points \div target_points)

\* a downsampling that drops the last, partial stride
downsample_whole_strides(waveform, factor) ==
    IF factor <= 1 THEN waveform
    ELSE [i \in 1..(Len(waveform) \div factor) |-> waveform[(i - 1) * factor + 1]]

\* downsample_waveform(): waveform[::factor]
downsample_waveform(waveform, factor) ==
    IF factor <= 1 THEN waveform
    ELSE [i \in 1..((Len(waveform) + factor - 1) \div factor) |->
             waveform[(i - 1) * factor + 1]]

Abs(x) == IF x < 0 THEN -x ELSE x

RECURSIVE MaxAbs(_)
MaxAbs(w) == IF w = <<>> THEN 0 ELSE Max(Abs(Head(w)), MaxAbs(Tail(w)))

\* ------------------------------------------------------ send_wave_packet
\* The keys of filtered_batch for one client (lines 82-98).
FilterBatch(subscribed_codes, wave_ids) ==
    IF ALL_Z \in subscribed_codes
    THEN {wave_id \in wave_ids :
            Len(Split(wave_id)) >= 4 /\ EndsWithZ(Split(wave_id)[4])}
    ELSE {wave_id \in wave_ids :
            Len(Split(wave_id)) >= 2 /\ Split(wave_id)[2] \in subscribed_codes}

\* client_resolutions.get(websocket, 1000)
ResolutionOf(ws) ==
    IF ws \in DOMAIN client_resolutions THEN client_resolutions[ws]
    ELSE DEFAULT_WIDTH

\* samprate / downsample_factor, a float in the code: kept as the fraction
Ratio(num, den) == [num |-> num, den |-> den]

\* downsampled_batch for one client (lines 104-127); an entry without
\* samples is passed on as it is
ClientPacket(batch, filtered, width) ==
    [wave_id \in filtered |->
        LET wave_data == batch[wave_id]
            factor == calculate_downsample_factor(wave_data.samprate, width)
            downsampled == downsample_waveform(wave_data.waveform, factor)
        IN IF wave_data.waveform = <<>> THEN wave_data
           ELSE [waveform |-> downsampled,
                 samprate |-> wave_data.samprate,
                 effective_samprate |-> Ratio(wave_data.samprate, factor),
                 original_length |-> Len(wave_data.waveform),
                 downsampled_length |-> Len(downsampled),
                 downsample_factor |-> factor]]

\* The dict iterator's next(): the first entry at or after pos that is not a
\* tombstone, 0 when the table is exhausted.
NextLive(pos) ==
    IF \E i \in pos..Len(sub_entries) : sub_entries[i] # NoConn
    THEN CHOOSE i \in pos..Len(sub_entries) :
            /\ sub_entries[i] # NoConn
            /\ \A j \in pos..(i - 1) : sub_entries[j] = NoConn
    ELSE 0

FanResult(kind, ws, frame, pos, len, log) ==
    [kind |-> kind, ws |-> ws, frame |-> frame, pos |-> pos, len |-> len,
     log |-> log]

\* The body of send_wave_packet's for loop from one next() up to the next
\* await: clients with an empty set or an empty filtered_batch are passed
\* over, the first other client gets a frame built and its send started.
\* "error" is an exception leaving send_wave_packet: the iterator finding
\* the dict's keys changed, or the factor computation raising.
RECURSIVE FanAdvance(_, _, _, _)
FanAdvance(batch, pos, remaining, log) ==
    LET n == NextLive(pos) IN
    IF n = 0 THEN FanResult("done", NoConn, EmptyMap, pos, remaining, log)
    ELSE IF remaining = 0
    THEN FanResult("error", NoConn, EmptyMap, pos, remaining, log)
    ELSE
      LET ws == sub_entries[n]
          subscribed_codes == subscribed_stations[ws]
          filtered == IF subscribed_codes = {} THEN {}
                      ELSE FilterBatch(subscribed_codes, DOMAIN batch)
          width == ResolutionOf(ws)
          seen == [ws |-> ws, sub |-> subscribed_codes, frame |-> filtered,
                   sent |-> filtered # {}]
      IN IF filtered = {}
         THEN FanAdvance(batch, n + 1, remaining - 1, Append(log, seen))
         ELSE IF \E wave_id \in filtered :
                   /\ batch[wave_id].waveform # <<>>
                   /\ calculate_downsample_factor(batch[wave_id].samprate, width)
                        = RAISES
         THEN FanResult("error", NoConn, EmptyMap, n + 1, remaining - 1, log)
         ELSE FanResult("send", ws, ClientPacket(batch, filtered, width),
                        n + 1, remaining - 1, Append(log, seen))

\* Resuming the loop after an await: next() first compares the dict's size
\* with the size the iterator was created at.
FanResume(batch, log) ==
    IF Cardinality(DOMAIN subscribed_stations) # it.used
    THEN FanResult("error", NoConn, EmptyMap, it.pos, it.len, log)
    ELSE FanAdvance(batch, it.pos, it.len, log)

IdleIter == [pos |-> 0, len |-> 0, used |-> 0]

\* The reader's state after the fanout step r: suspended in a send, or in
\* the sleep that follows (send_wave_packet returned: sleep(0.33); it raised
\* into the reader's except clause: sleep(0.1)).
FanApply(r, used, owed, sent) ==
    /\ fan_log' = r.log
    /\ IF r.kind = "send"
       THEN /\ wpc' = "send"
            /\ send_to' = r.ws
            /\ send_frame' = r.frame
            /\ it' = [pos |-> r.pos, len |-> r.len, used |-> used]
            /\ tick_owed' = owed
            /\ tick_sent' = sent \cup {r.ws}
            /\ wave_missed' = EmptyMap
       ELSE /\ wpc' = "sleep"
            /\ send_to' = NoConn
            /\ send_frame' = EmptyMap
            /\ it' = IdleIter
            /\ tick_owed' = EmptyMap
            /\ tick_sent' = {}
            /\ wave_missed' = [ws \in DOMAIN owed \ sent |-> owed[ws]]

\* ------------------------------------------------------ redis_wave_reader
KeySeq == << <<STA_A, HLZ>>, <<STA_A, HLE>>, <<STA_B, HLZ>>, <<STA_B, HLE>> >>
Keys == Range(KeySeq)
\* the vertical-channel streams, the ones producers write to
LiveKeys == {<<STA_A, HLZ>>, <<STA_B, HLZ>>}

TotalRecs == Len(Flatten([i \in 1..Len(KeySeq) |-> bus[KeySeq[i]]]))

\* scan_iter("wave:*:*Z"): the existing streams whose channel ends with Z
ScanKeys == {k \in Keys : bus[k] # <<>> /\ EndsWithZ(k[2])}

\* stream_ids after the periodic scan: new keys start at '0-0'
AfterScan(scan) ==
    IF scan
    THEN [k \in DOMAIN stream_ids \cup ScanKeys |->
            IF k \in DOMAIN stream_ids THEN stream_ids[k] ELSE 0]
    ELSE stream_ids

\* xread(stream_ids, count=100): per key, the records after the last-seen id
XRead(ids) ==
    [k \in {x \in DOMAIN ids : Len(bus[x]) > ids[x]} |->
        [i \in 1..Min(XREAD_COUNT, Len(bus[k]) - ids[k]) |->
            [id |-> ids[k] + i, msg |-> bus[k][ids[k] + i]]]]

KeyIndex(k) == CHOOSE i \in 1..Len(KeySeq) : KeySeq[i] = k

\* np.frombuffer(waveform_bytes, dtype=np.int32) raises on a payload whose
\* length is not a multiple of 4
Raises(m) == ~m.aligned

\* The position in the response of the first stream with a record whose
\* processing raises; 0 when the whole response is processed.
RaisingKey(response) ==
    LET bad == {i \in 1..Len(KeySeq) :
                  /\ KeySeq[i] \in DOMAIN response
                  /\ \E j \in DOMAIN response[KeySeq[i]] :
                        Raises(response[KeySeq[i]][j].msg)}
    IN IF bad = {} THEN 0 ELSE CHOOSE i \in bad : \A j \in bad : i <= j

\* a reader that does not record the last id of what it read
AfterReadStale(ids, response) == ids

\* stream_ids[stream_key] = messages[-1][0], for each stream of the response
\* the loop enters before an exception leaves it
AfterRead(ids, response) ==
    [k \in DOMAIN ids |->
        IF /\ k \in DOMAIN response
           /\ RaisingKey(response) \in {0} \cup (KeyIndex(k)..Len(KeySeq))
        THEN response[k][Len(response[k])].id
        ELSE ids[k]]

\* One record of the response: nothing when it has no data, else the
\* (wave_id, entry) the reader collects for it (lines 599-623, 635-648).
\* The entry carries the record's samples in bus order; scaling and the
\* filter keep their positions.
RECURSIVE CollectKey(_, _)
CollectKey(k, messages) ==
    IF messages = <<>> THEN <<>>
    ELSE LET m == Head(messages).msg
             wave_id == WaveIdOf(m.network, k[1], m.location, k[2])
             entry == [waveform |-> m.data, pga |-> MaxAbs(m.data),
                       samprate |-> m.samprate, key |-> k]
         IN (IF m.data = <<>> THEN <<>> ELSE << <<wave_id, entry>> >>)
            \o CollectKey(k, Tail(messages))

Collect(response) ==
    Flatten([i \in 1..Len(KeySeq) |->
                IF KeySeq[i] \in DOMAIN response
                THEN CollectKey(KeySeq[i], response[KeySeq[i]])
                ELSE <<>>])

\* wave_batch[meta['wave_id']] = {...} for each collected record in turn
RECURSIVE BuildBatch(_, _)
BuildBatch(pairs, batch) ==
    IF pairs = <<>> THEN batch
    ELSE BuildBatch(Tail(pairs), DictSet(batch, Head(pairs)[1], Head(pairs)[2]))

\* history: the samples of a tick appended to what each stream delivered
DeliveredAfter(batch) ==
    IF ~audit THEN delivered ELSE
    [k \in Keys |->
        delivered[k] \o
        (IF \E w \in DOMAIN batch : batch[w].key = k
         THEN batch[CHOOSE w \in DOMAIN batch : batch[w].key = k].waveform
         ELSE <<>>)]

\* history: the ids of a response appended to what xread returned per key
ReturnedAfter(response) ==
    IF ~audit THEN returned ELSE
    [k \in Keys |->
        returned[k] \o
        (IF k \in DOMAIN response
         THEN [j \in DOMAIN response[k] |-> response[k][j].id]
         ELSE <<>>)]

\* One turn of the reader's loop, up to its first suspension inside
\* send_wave_packet (or back to the top when there is nothing to send, or
\* into the except clause's sleep when a record's processing raises).
WavePoll(scan) ==
    /\ wpc = "poll"
    /\ (~scanned) => scan
    /\ \E ids \in {AfterScan(scan)} :
       \E response \in {XRead(ids)} :
       \E batch \in {IF RaisingKey(response) # 0 THEN EmptyMap
                     ELSE BuildBatch(Collect(response), EmptyMap)} :
          /\ scanned' = TRUE
          /\ stream_ids' = AfterRead(ids, response)
          /\ returned' = ReturnedAfter(response)
          /\ IF RaisingKey(response) # 0
             THEN /\ wpc' = "sleep"
                  /\ UNCHANGED <<wave_batch, it, send_to, send_frame,
                                 fan_log, delivered, tick_owed, tick_sent,
                                 wave_missed>>
             ELSE IF DOMAIN batch = {}
             THEN UNCHANGED <<wpc, wave_batch, it, send_to, send_frame,
                              fan_log, delivered, tick_owed, tick_sent,
                              wave_missed>>
             ELSE /\ wave_batch' = batch
                  /\ delivered' = DeliveredAfter(batch)
                  /\ \E r \in {FanAdvance(batch, 1,
                                  Cardinality(DOMAIN subscribed_stations), <<>>)} :
                        FanApply(r, Cardinality(DOMAIN subscribed_stations),
                                 subscribed_stations, {})
    /\ wire' = IF wpc' = "send" /\ wpc # "send"
               THEN WireSend(send_to', "wave_packet") ELSE wire
    /\ UNCHANGED <<bus, audit, mgrVars, bcVars, coreAux, exceptWire>>

\* The suspended send completes: the loop goes on to the next client.
WaveSendOk ==
    /\ wpc = "send"
    /\ send_to \notin broken
    /\ send_to \notin stalled
    /\ \E r \in {FanResume(wave_batch, <<>>)} :
          FanApply(r, it.used, tick_owed, tick_sent)
    /\ wire' = IF wpc' = "send" THEN WireSend(send_to', "wave_packet") ELSE wire
    /\ UNCHANGED <<bus, stream_ids, scanned, wave_batch, delivered, audit,
                   returned>>
    /\ UNCHANGED <<mgrVars, bcVars, coreAux, exceptWire>>

\* The suspended send raises: the except clause logs, the loop goes on.
WaveSendFail ==
    /\ wpc = "send"
    /\ send_to \in broken
    /\ send_to \notin stalled
    /\ send_failed' = send_failed \cup {send_to}
    /\ \E r \in {FanResume(wave_batch, <<>>)} :
          FanApply(r, it.used, tick_owed, tick_sent)
    /\ wire' = IF wpc' = "send" THEN WireSend(send_to', "wave_packet") ELSE wire
    /\ UNCHANGED <<bus, stream_ids, scanned, wave_batch, delivered, audit,
                   returned>>
    /\ UNCHANGED <<mgrVars, bcVars, hist_picks, hist_range, flt_in, flt_out,
                   last_subscribe, exceptWire>>

\* The sleep ends: the next turn of the loop starts with fresh locals.
WaveWake ==
    /\ wpc = "sleep"
    /\ wpc' = "poll"
    /\ wave_batch' = EmptyMap
    /\ fan_log' = <<>>
    /\ wave_missed' = EmptyMap
    /\ UNCHANGED <<bus, stream_ids, scanned, it, send_to, send_frame, delivered,
                   audit, tick_owed, tick_sent, returned>>
    /\ UNCHANGED <<mgrVars, bcVars, auxVars>>

\* history: the call that raised, and the number of records on the bus
\* when the first call raised
BusErrorAfter(call) ==
    [last |-> call, seen |-> TRUE,
     mark |-> IF bus_error.seen THEN bus_error.mark ELSE TotalRecs]

\* The key scan raises (line 554): the list of keys is not built, no key
\* is added and last_scan_time stays as it was; the except clause sleeps.
WaveScanFail ==
    /\ wpc = "poll"
    /\ bus_error.last = "none"
    /\ wpc' = "sleep"
    /\ bus_error' = BusErrorAfter("scan")
    /\ UNCHANGED <<bus, stream_ids, scanned, wave_batch, it, send_to,
                   send_frame, fan_log, delivered, audit, tick_owed, tick_sent,
                   wave_missed, returned>>
    /\ UNCHANGED <<mgrVars, bcVars, coreAux, exceptBusError>>

\* xread raises (line 578), after a scan or without one: no last-seen id
\* is recorded; the except clause sleeps.
WaveXReadFail(scan) ==
    /\ wpc = "poll"
    /\ bus_error.last = "none"
    /\ (~scanned) => scan
    /\ AfterScan(scan) # EmptyMap
    /\ stream_ids' = AfterScan(scan)
    /\ scanned' = TRUE
    /\ wpc' = "sleep"
    /\ bus_error' = BusErrorAfter("xread")
    /\ UNCHANGED <<bus, wave_batch, it, send_to, send_frame, fan_log,
                   delivered, audit, tick_owed, tick_sent, wave_missed,
                   returned>>
    /\ UNCHANGED <<mgrVars, bcVars, coreAux, exceptBusError>>

\* await asyncio.sleep(0.1) of the except clause returns: the loop retries
WaveRetry ==
    /\ wpc = "sleep"
    /\ bus_error.last # "none"
    /\ wpc' = "poll"
    /\ bus_error' = [bus_error EXCEPT !.last = "none"]
    /\ UNCHANGED <<bus, stream_ids, scanned, wave_batch, it, send_to,
                   send_frame, fan_log, delivered, audit, tick_owed, tick_sent,
                   wave_missed, returned>>
    /\ UNCHANGED <<mgrVars, bcVars, coreAux, exceptBusError>>

\* A producer appends one record to a wave stream.
XAddWave(k, data) ==
    /\ TotalRecs < MaxRecs
    /\ bus' = [bus EXCEPT ![k] = Append(@,
                  [network |-> SM, location |-> LOC01, samprate |-> 100,
                   data |-> data, aligned |-> TRUE])]
    /\ UNCHANGED <<stream_ids, scanned, wpc, wave_batch, it, send_to,
                   send_frame, fan_log, delivered, audit, tick_owed, tick_sent,
                   wave_missed, returned>>
    /\ UNCHANGED <<mgrVars, bcVars, auxVars>>

\* A producer appends a record whose payload is not a whole number of
\* int32 samples.
XAddBad(k) ==
    /\ TotalRecs < MaxRecs
    /\ bus' = [bus EXCEPT ![k] = Append(@,
                  [network |-> SM, location |-> LOC01, samprate |-> 100,
                   data |-> <<>>, aligned |-> FALSE])]
    /\ UNCHANGED <<stream_ids, scanned, wpc, wave_batch, it, send_to,
                   send_frame, fan_log, delivered, audit, tick_owed, tick_sent,
                   wave_missed, returned>>
    /\ UNCHANGED <<mgrVars, bcVars, auxVars>>

\* A producer appends a record that carries the network code TW.
XAddLegacy(k, data) ==
    /\ TotalRecs < MaxRecs
    /\ bus' = [bus EXCEPT ![k] = Append(@,
                  [network |-> TW, location |-> LOC01, samprate |-> 100,
                   data |-> data, aligned |-> TRUE])]
    /\ UNCHANGED <<stream_ids, scanned, wpc, wave_batch, it, send_to,
                   send_frame, fan_log, delivered, audit, tick_owed, tick_sent,
                   wave_missed, returned>>
    /\ UNCHANGED <<mgrVars, bcVars, auxVars>>

\* The samples a new record may carry: none, or one fresh sample
NewData == {<<>>, <<TotalRecs + 1>>}

\* ---------------------------------------------------- websocket_endpoint
Kinds == {"pick", "eew"}

\* history: the connection is no longer one that stayed as it was
\* throughout the running fanout
Unowe(ws) == tick_owed' = [x \in DOMAIN tick_owed \ {ws} |-> tick_owed[x]]

\* history: the connection is no longer one that stayed connected
\* throughout a running broadcast or fanout
Forget(ws) ==
    /\ bc_throughout' = [k \in Kinds |-> bc_throughout[k] \ {ws}]
    /\ Unowe(ws)

bcRest == <<feed, last_id, xread_tip, bpc, resp, packet, bidx, bc_sent,
            bc_missed, sent_log, first_tip>>

\* A client opens a websocket: connect() registers it and suspends in the
\* send of connect_init.  Websocket objects are interchangeable, so they
\* are taken in the order of their numbers.
Connect(ws) ==
    /\ hpc[ws] = "new"
    /\ \A other \in Conn : other < ws => hpc[other] # "new"
    /\ ManagerConnect(ws)
    /\ hpc' = [hpc EXCEPT ![ws] = "init"]
    /\ wire' = WireSend(ws, "connect_init")
    /\ UNCHANGED <<broken, stalled, waveVars, bcVars, coreAux, exceptWire>>

\* connect_init is sent: the handler enters its receive loop.
InitSent(ws) ==
    /\ hpc[ws] = "init"
    /\ ws \notin broken
    /\ hpc' = [hpc EXCEPT ![ws] = "open"]
    /\ UNCHANGED <<registry, broken, stalled, waveVars, bcVars, auxVars>>

\* The send of connect_init raises.  connect() is awaited before the
\* handler's try block (line 161), so the exception ends the handler and
\* neither except clause runs.
InitFail(ws) ==
    /\ hpc[ws] = "init"
    /\ ws \in broken
    /\ hpc' = [hpc EXCEPT ![ws] = "closed"]
    /\ UNCHANGED <<registry, broken, stalled, waveVars, bcVars, auxVars>>

\* The client goes away: from now on a send to it raises, and its
\* handler's next receive raises WebSocketDisconnect.
ClientGone(ws) ==
    /\ hpc[ws] \in {"init", "open"}
    /\ ws \notin broken
    /\ broken' = broken \cup {ws}
    /\ Forget(ws)
    /\ UNCHANGED <<registry, hpc, stalled, waveRest, bcRest, auxVars>>

\* except WebSocketDisconnect: socket_manager.disconnect(websocket)
Disconnect(ws) ==
    /\ hpc[ws] = "open"
    /\ ws \in broken
    /\ ManagerDisconnect(ws)
    /\ Forget(ws)
    /\ hpc' = [hpc EXCEPT ![ws] = "closed"]
    /\ UNCHANGED <<broken, stalled, waveRest, bcRest, auxVars>>

\* except Exception: a frame the handler cannot process (no "data" object,
\* so payload.get raises) also ends in socket_manager.disconnect(websocket);
\* the handler returns and the server closes the socket
HandlerError(ws) ==
    /\ hpc[ws] = "open"
    /\ ManagerDisconnect(ws)
    /\ Forget(ws)
    /\ hpc' = [hpc EXCEPT ![ws] = "closed"]
    /\ broken' = broken \cup {ws}
    /\ UNCHANGED <<stalled, waveRest, bcRest, auxVars>>

NoCall == [ws |-> NoConn, stations |-> <<>>, before |-> {}]

\* event == "subscribe_stations"
Subscribe(ws, stations) ==
    /\ hpc[ws] = "open"
    /\ ManagerSubscribe(ws, stations)
    /\ last_subscribe' =
          IF audit THEN [ws |-> ws, stations |-> stations,
                         before |-> subscribed_stations[ws]]
          ELSE last_subscribe
    /\ Unowe(ws)
    /\ UNCHANGED <<hpc, broken, stalled, waveRest, bcVars>>
    /\ UNCHANGED <<send_failed, hist_picks, hist_range, flt_in, flt_out,
                   extVars>>

\* event == "set_display_resolution"
SetResolution(ws, width) ==
    /\ hpc[ws] = "open"
    /\ ManagerSetResolution(ws, width)
    /\ UNCHANGED <<hpc, broken, stalled, waveVars, bcVars, auxVars>>

\* The station lists a client may send
StationLists ==
    {<<>>, <<STA_A>>, <<STA_B>>, <<ALL_Z>>, <<ALL_Z, STA_A>>, <<STA_A, STA_B>>}
LiveLists == {<<>>, <<STA_A>>, <<ALL_Z, STA_A>>}

Widths == {0, 500, 1000}

\* ------------------------------------ redis_pick_reader, redis_eew_reader
\* The two readers and the two broadcast methods are the same code up to
\* the stream name, the initial last_id and the packet built; they are
\* modelled once, indexed by the stream name.
DOLLAR == -1        \* last_id = '$'
NotStarted == -1    \* the reader has issued no xread yet
NoPacket == [type |-> "none", parsed |-> FALSE,
             raw |-> [kind |-> "none", station |-> <<>>, channel |-> <<>>,
                      time |-> 0, update_sec |-> 0, weight |-> 0]]
NoTarget == [i |-> 0, ws |-> NoConn]

\* last_id = '0-0' in redis_pick_reader, '$' in redis_eew_reader
InitialLastId(k) == IF k = "pick" THEN 0 ELSE DOLLAR

\* The packet built from a record's data: a pick that parses as a JSON
\* object is sent parsed, anything else as text; eew data is always text.
PacketOf(k, msg) ==
    [type |-> k, parsed |-> (k = "pick" /\ msg.kind = "dict"), raw |-> msg]

\* xread({stream_key: last_id}, count=10): the records after the position
\* the call waits behind
BRead(k) ==
    [i \in 1..Min(PICK_COUNT, Len(feed[k]) - xread_tip[k]) |->
        [id |-> xread_tip[k] + i, msg |-> feed[k][xread_tip[k] + i]]]

BState(pc, lid, msgs, pkt, target) ==
    [bpc |-> pc, last_id |-> lid, resp |-> msgs, packet |-> pkt, bidx |-> target]

\* for msg_id, msg_data in messages: up to the first send that suspends.
\* A record without data is passed over; with no connection registered
\* the broadcast loop ends at once.
RECURSIVE BMessages(_, _, _)
BMessages(k, msgs, lid) ==
    IF msgs = <<>> THEN BState("idle", lid, <<>>, NoPacket, NoTarget)
    ELSE LET m == Head(msgs) IN
         IF m.msg.kind = "none" \/ active_connections = <<>>
         THEN BMessages(k, Tail(msgs), m.id)
         ELSE BState("send", m.id, Tail(msgs), PacketOf(k, m.msg),
                     [i |-> 1, ws |-> active_connections[1]])

\* the reader's variables take the values of the record st
BApply(k, st) ==
    /\ bpc' = [bpc EXCEPT ![k] = st.bpc]
    /\ last_id' = [last_id EXCEPT ![k] = st.last_id]
    /\ resp' = [resp EXCEPT ![k] = st.resp]
    /\ packet' = [packet EXCEPT ![k] = st.packet]
    /\ bidx' = [bidx EXCEPT ![k] = st.bidx]

\* the connections that are registered, past their handshake and alive
Connected == {ws \in Range(active_connections) :
                hpc[ws] = "open" /\ ws \notin broken}

\* history: a broadcast begins, over the connections connected now
BBegin(k, st) ==
    IF st.bpc = "send"
    THEN /\ bc_throughout' = [bc_throughout EXCEPT ![k] = Connected]
         /\ bc_sent' = [bc_sent EXCEPT ![k] = {}]
    ELSE UNCHANGED <<bc_throughout, bc_sent>>

\* history: the send_json the broadcast loop has just called, if any
BWire(k, st) ==
    wire' = IF st.bpc = "send" THEN WireSend(st.bidx.ws, FeedEvent(k)) ELSE wire

\* The reader issues its xread.
BIssue(k) ==
    /\ bpc[k] = "idle"
    /\ bpc' = [bpc EXCEPT ![k] = "wait"]
    /\ xread_tip' = [xread_tip EXCEPT ![k] =
                        IF last_id[k] = DOLLAR THEN Len(feed[k]) ELSE last_id[k]]
    /\ first_tip' = [first_tip EXCEPT ![k] =
                        IF @ = NotStarted THEN Len(feed[k]) ELSE @]
    /\ UNCHANGED <<feed, last_id, resp, packet, bidx, bc_throughout, bc_sent,
                   bc_missed, sent_log>>
    /\ UNCHANGED <<mgrVars, waveVars, auxVars>>

\* The xread returns: empty after the 100 ms block, or with records, the
\* first of which is broadcast up to the first suspended send.
BReturn(k) ==
    /\ bpc[k] = "wait"
    /\ LET st == BMessages(k, BRead(k), last_id[k])
       IN BApply(k, st) /\ BBegin(k, st) /\ BWire(k, st)
    /\ UNCHANGED <<feed, xread_tip, bc_missed, sent_log, first_tip>>
    /\ UNCHANGED <<mgrVars, waveVars, coreAux, exceptWire>>

\* for websocket in self.active_connections: the list iterator's next()
\* after the send to bidx[k] has ended, then the rest of the response
BAfterSend(k) ==
    LET i == bidx[k].i + 1 IN
    IF i <= Len(active_connections)
    THEN BState("send", last_id[k], resp[k], packet[k],
                [i |-> i, ws |-> active_connections[i]])
    ELSE BMessages(k, resp[k], last_id[k])

\* history at the end of a send: who was sent to, who was missed
BRecord(k, st) ==
    LET sent == bc_sent[k] \cup {bidx[k].ws} IN
    IF st.bpc = "send" /\ st.bidx.i > 1
    THEN /\ bc_sent' = [bc_sent EXCEPT ![k] = sent]
         /\ UNCHANGED <<bc_throughout, bc_missed>>
    ELSE /\ bc_missed' = [bc_missed EXCEPT ![k] = bc_throughout[k] \ sent]
         /\ IF st.bpc = "send"
            THEN /\ bc_throughout' = [bc_throughout EXCEPT ![k] = Connected]
                 /\ bc_sent' = [bc_sent EXCEPT ![k] = {}]
            ELSE /\ bc_throughout' = [bc_throughout EXCEPT ![k] = {}]
                 /\ bc_sent' = [bc_sent EXCEPT ![k] = {}]

\* The suspended send_json completes.
BSendOk(k) ==
    /\ bpc[k] = "send"
    /\ bidx[k].ws \notin broken
    /\ bidx[k].ws \notin stalled
    /\ sent_log' = [sent_log EXCEPT ![k] =
                       Append(@, [to |-> bidx[k].ws, packet |-> packet[k],
                                  id |-> last_id[k]])]
    /\ LET st == BAfterSend(k)
       IN BApply(k, st) /\ BRecord(k, st) /\ BWire(k, st)
    /\ UNCHANGED <<feed, xread_tip, first_tip>>
    /\ UNCHANGED <<mgrVars, waveVars, coreAux, exceptWire>>

\* The suspended send_json raises: the except clause logs, the loop goes on.
BSendFail(k) ==
    /\ bpc[k] = "send"
    /\ bidx[k].ws \in broken
    /\ bidx[k].ws \notin stalled
    /\ send_failed' = send_failed \cup {bidx[k].ws}
    /\ LET st == BAfterSend(k)
       IN BApply(k, st) /\ BRecord(k, st) /\ BWire(k, st)
    /\ UNCHANGED <<feed, xread_tip, sent_log, first_tip>>
    /\ UNCHANGED <<mgrVars, waveVars, hist_picks, hist_range, flt_in, flt_out,
                   last_subscribe, exceptWire>>

\* A producer appends one record to the pick or the eew stream.
XAddFeed(k, msg) ==
    /\ Len(feed[k]) < (IF k = "pick" THEN MaxPicks ELSE MaxEews)
    /\ feed' = [feed EXCEPT ![k] = Append(@, msg)]
    /\ UNCHANGED <<last_id, xread_tip, bpc, resp, packet, bidx, bc_throughout,
                   bc_sent, bc_missed, sent_log, first_tip>>
    /\ UNCHANGED <<mgrVars, waveVars, auxVars>>

\* A client stops reading: the server's send to it never completes.
Stall(ws) ==
    /\ hpc[ws] = "open"
    /\ ws \notin broken
    /\ ws \notin stalled
    /\ stalled' = stalled \cup {ws}
    /\ UNCHANGED <<registry, hpc, broken, waveVars, bcVars, auxVars>>

\* --------------------------------------------------- get_historical_picks
\* xrange("pick", min=start_id, max=end_id): a record's id is its position
\* in the stream
XRange(k, lo, hi) ==
    [i \in 1..Max(0, Min(hi, Len(feed[k])) - Max(lo, 1) + 1) |->
        feed[k][Max(lo, 1) + i - 1]]

PickKey(p) == <<p.station, p.channel, p.time>>

\* a pick_map in which the last record of a key replaces the stored one
PickMapStepLast(pick_map, msg) ==
    IF msg.kind # "dict" THEN pick_map
    ELSE IF \E i \in DOMAIN pick_map : pick_map[i].key = PickKey(msg)
    THEN [i \in DOMAIN pick_map |->
            IF pick_map[i].key = PickKey(msg)
            THEN [key |-> PickKey(msg), data |-> msg, update_sec |-> msg.update_sec]
            ELSE pick_map[i]]
    ELSE Append(pick_map,
                [key |-> PickKey(msg), data |-> msg, update_sec |-> msg.update_sec])

\* pick_map after one more message (lines 496-517); the dict is kept as the
\* list of its items in insertion order
PickMapStep(pick_map, msg) ==
    IF msg.kind # "dict" THEN pick_map
    ELSE IF \E i \in DOMAIN pick_map : pick_map[i].key = PickKey(msg)
    THEN [i \in DOMAIN pick_map |->
            IF pick_map[i].key = PickKey(msg)
               /\ msg.update_sec > pick_map[i].update_sec
            THEN [key |-> PickKey(msg), data |-> msg, update_sec |-> msg.update_sec]
            ELSE pick_map[i]]
    ELSE Append(pick_map,
                [key |-> PickKey(msg), data |-> msg, update_sec |-> msg.update_sec])

RECURSIVE PickMapOf(_, _)
PickMapOf(messages, pick_map) ==
    IF messages = <<>> THEN pick_map
    ELSE PickMapOf(Tail(messages), PickMapStep(pick_map, Head(messages)))

\* the returned pick_packets (lines 522-533)
get_historical_picks(lo, hi) ==
    LET pick_map == PickMapOf(XRange("pick", lo, hi), <<>>)
    IN [i \in DOMAIN pick_map |-> [type |-> "pick", content |-> pick_map[i].data]]

\* The historical handler asks for the picks of a range.
HistPicks(lo, hi) ==
    /\ hist_picks' = get_historical_picks(lo, hi)
    /\ hist_range' = <<lo, hi>>
    /\ UNCHANGED <<send_failed, flt_in, flt_out, last_subscribe, extVars>>
    /\ UNCHANGED <<mgrVars, waveVars, bcVars>>

\* the pick records a producer may append
PickRec(station, channel, time, update_sec, weight) ==
    [kind |-> "dict", station |-> station, channel |-> channel, time |-> time,
     update_sec |-> update_sec, weight |-> weight]
TextRec == [kind |-> "text", station |-> <<>>, channel |-> <<>>, time |-> 0,
            update_sec |-> 0, weight |-> 0]
NoDataRec == [kind |-> "none", station |-> <<>>, channel |-> <<>>, time |-> 0,
              update_sec |-> 0, weight |-> 0]
PickKeys == {<<STA_A, HLZ, 1>>, <<STA_B, HLZ, 1>>, <<STA_A, HLE, 1>>,
             <<STA_A, HLZ, 2>>}
PickRecs ==
    {PickRec(k[1], k[2], k[3], u, w) :
        k \in PickKeys, u \in 0..MaxUpd, w \in 0..1}

\* ------------------------------------------- request_historical_data
TIME_WINDOW == 5

\* A stored record of a stream: n samples from second startt on, one sample
\* a second.  A sample is written as the time it was taken at.
Chunk(startt, n) ==
    [startt |-> startt, n |-> n, samprate |-> 1, network |-> SM,
     location |-> LOC01]

\* the wave_id get_historical_waves_bulk gives a record (lines 347-349)
hist_wave_id(k, msg) == WaveIdOf(msg.network, k[1], msg.location, k[2])
ChunkSamples(c) == [i \in 1..c.n |-> c.startt + (i - 1) \div c.samprate]

\* the records a stream may hold in the requested range: in time order,
\* none overlapping the one before it
HistChunks == {Chunk(0, 5), Chunk(5, 3), Chunk(10, 5), Chunk(12, 3)}
ChunkLists ==
    {l \in UNION {[1..k -> HistChunks] : k \in 0..MaxChunks} :
        \A i \in 1..(Len(l) - 1) : l[i + 1].startt >= l[i].startt + l[i].n}
Histories == [LiveKeys -> ChunkLists]

\* pipeline.xrange(key, min=start_id, max=end_id) for one key
HistoryOf(history, k) ==
    IF k \in DOMAIN history THEN history[k] ELSE << Chunk(0, 5) >>

\* redis_client.scan_iter(pattern) over the keys of the bus
ScanZ(matching) ==
    SelectSeq(KeySeq, LAMBDA k : k[1] \in matching /\ EndsWithZ(k[2]))

\* stream_keys (lines 195-211)
scan_keys(stations) ==
    IF stations = << ALL_Z >>
    THEN ScanZ(Stations)
    ELSE Flatten([i \in 1..Len(stations) |-> ScanZ({stations[i]})])

\* station_data_map after the records of one more key (lines 322-365):
\* entries in insertion order
StationDataPut(map, k, messages) ==
    LET wave_id == hist_wave_id(k, messages[1]) IN
    IF messages = <<>> THEN map
    ELSE IF \E i \in DOMAIN map : map[i].wave_id = wave_id
    THEN [i \in DOMAIN map |->
            IF map[i].wave_id = wave_id
            THEN [map[i] EXCEPT !.chunks = @ \o messages]
            ELSE map[i]]
    ELSE Append(map, [wave_id |-> wave_id, chunks |-> messages,
                      samprate |-> messages[1].samprate])

RECURSIVE StationDataMap(_, _, _)
StationDataMap(stream_keys, history, map) ==
    IF stream_keys = <<>> THEN map
    ELSE StationDataMap(Tail(stream_keys), history,
                        StationDataPut(map, Head(stream_keys),
                                       HistoryOf(history, Head(stream_keys))))

\* chunks.sort(key=lambda c: c['startt']): a stable sort
RECURSIVE SortChunks(_)
SortChunks(chunks) ==
    IF chunks = <<>> THEN <<>>
    ELSE LET rest == SortChunks(Tail(chunks))
             c == Head(chunks)
             before == SelectSeq(rest, LAMBDA x : x.startt < c.startt)
             after == SelectSeq(rest, LAMBDA x : x.startt >= c.startt)
         IN before \o <<c>> \o after

\* np.concatenate([c['waveform'] for c in chunks])
FullWaveform(chunks) ==
    Flatten([i \in 1..Len(chunks) |-> ChunkSamples(chunks[i])])

\* packet_map[time_key][wave_id] = entry, the map kept in insertion order
PacketMapPut(packet_map, time_key, wave_id, entry) ==
    IF \E i \in DOMAIN packet_map : packet_map[i].time_key = time_key
    THEN [i \in DOMAIN packet_map |->
            IF packet_map[i].time_key = time_key
            THEN [packet_map[i] EXCEPT !.batch = DictSet(@, wave_id, entry)]
            ELSE packet_map[i]]
    ELSE Append(packet_map, [time_key |-> time_key,
                             batch |-> DictSet(EmptyMap, wave_id, entry)])

\* the window that starts at index j of a waveform (lines 424-457)
WindowEntry(waveform, start_time, samprate, factor, j) ==
    LET samples_per_window == TIME_WINDOW * samprate
        chunk_end_idx == Min(j + samples_per_window, Len(waveform))
        chunk_waveform == SubSeq(waveform, j + 1, chunk_end_idx)
        downsampled_chunk == downsample_waveform(chunk_waveform, factor)
    IN [waveform |-> downsampled_chunk,
        pga |-> MaxAbs(downsampled_chunk),
        startt |-> start_time + j \div samprate,
        endt |-> start_time + chunk_end_idx \div samprate,
        samprate |-> samprate,
        effective_samprate |-> Ratio(samprate, factor),
        original_length |-> Len(chunk_waveform),
        downsampled_length |-> Len(downsampled_chunk),
        downsample_factor |-> factor]

\* for j in range(0, total_samples, samples_per_window) for one wave_id
RECURSIVE SliceWave(_, _, _, _, _)
SliceWave(packet_map, data, waveform, factor, j) ==
    IF j >= Len(waveform) THEN packet_map
    ELSE LET start_time == SortChunks(data.chunks)[1].startt
             entry == WindowEntry(waveform, start_time, data.samprate, factor, j)
             time_key == entry.startt \div TIME_WINDOW
         IN SliceWave(PacketMapPut(packet_map, time_key, data.wave_id, entry),
                      data, waveform, factor, j + TIME_WINDOW * data.samprate)

\* for i, wave_id in enumerate(wave_ids) (lines 413-457)
RECURSIVE PacketMap(_, _, _)
PacketMap(map, width, packet_map) ==
    IF map = <<>> THEN packet_map
    ELSE LET data == Head(map)
             factor == calculate_downsample_factor(data.samprate, width)
             waveform == FullWaveform(SortChunks(data.chunks))
         IN PacketMap(Tail(map), width,
                      SliceWave(packet_map, data, waveform, factor, 0))

\* the packets in the order they were put into packet_map
insertion_order(packet_map) == packet_map

\* for time_key in sorted(packet_map.keys()): all_packets.append(...)
RECURSIVE sorted_packets(_)
sorted_packets(packet_map) ==
    IF packet_map = <<>> THEN <<>>
    ELSE LET i == CHOOSE i \in DOMAIN packet_map :
                     \A j \in DOMAIN packet_map :
                         packet_map[i].time_key <= packet_map[j].time_key
         IN << packet_map[i] >>
            \o sorted_packets(SubSeq(packet_map, 1, i - 1)
                              \o SubSeq(packet_map, i + 1, Len(packet_map)))

\* get_historical_waves_bulk: the list returned, each packet with its
\* window key; no stream key or no record gives an empty result
get_historical_waves_bulk(stream_keys, history, width) ==
    sorted_packets(PacketMap(StationDataMap(stream_keys, history, <<>>),
                             width, <<>>))

Frame(event, time_key, empty) ==
    [event |-> event, time_key |-> time_key, empty |-> empty]

NoRequest ==
    [ws |-> NoConn, pc |-> "idle", queue |-> <<>>, fault |-> "none",
     failed |-> "none", frames |-> <<>>, inserted |-> <<>>,
     packets |-> <<>>, data |-> <<>>, picks |-> 0,
     plan |-> <<>>, bus_ops |-> <<>>, late |-> <<>>]

\* the operations on the bus that may raise during a request
BusFaults == {"none", "scan", "xrange", "picks"}

\* event == "request_historical_data" up to the first frame sent: the keys
\* are scanned and the ranges read; an exception goes to the except clause
\* of line 267, which sends an error frame
\* history: the frames this step of the request has sent
RECURSIVE WireAll(_, _, _)
WireAll(sent, frames, i) ==
    IF i > Len(frames) THEN sent
    ELSE WireAll(send_json(sent, frames[i].event), frames, i + 1)

HistWire ==
    IF wire = NoWire THEN wire
    ELSE [wire EXCEPT ![hq'.ws] = WireAll(@, hq'.frames, Len(hq.frames) + 1)]

\* the request as it stands once its scan and its bulk fetch have returned:
\* failed, answered with the empty frame, or with its packets to send
Requested(ws, stations, history, fault) ==
    LET stream_keys == scan_keys(stations)
        width == ResolutionOf(ws)
        map == StationDataMap(stream_keys, history, <<>>)
        wave_packets == get_historical_waves_bulk(stream_keys, history, width)
        begun == [NoRequest EXCEPT !.ws = ws, !.fault = fault]
    IN
         IF fault \in {"scan", "xrange"}
         THEN [begun EXCEPT !.pc = "done", !.failed = fault,
                            !.frames = << Frame("error", 0, FALSE) >>]
         ELSE IF wave_packets = <<>>
         THEN [begun EXCEPT !.pc = "done",
                            !.frames = << Frame("historical_data", 0, TRUE) >>]
         ELSE [begun EXCEPT
                 !.pc = "waves", !.queue = wave_packets,
                 !.packets = wave_packets,
                 !.inserted = [i \in DOMAIN PacketMap(map, width, <<>>) |->
                                 PacketMap(map, width, <<>>)[i].time_key],
                 !.data = [i \in DOMAIN map |->
                             [wave_id |-> map[i].wave_id,
                              times |-> Range(FullWaveform(map[i].chunks))]]]

HistRequest(ws, stations, history, fault) ==
    /\ hpc[ws] = "open"
    /\ hq.pc = "idle"
    /\ stations # <<>>
    /\ hq' = Requested(ws, stations, history, fault)
    /\ wire' = HistWire
    /\ UNCHANGED <<mgrVars, waveVars, bcVars, coreAux, exceptHq>>

\* await websocket.send_json({"event": "historical_data", ...}) and the
\* sleep after it, for the next packet of the list
HistSend ==
    /\ hq.pc = "waves"
    /\ hq' = [hq EXCEPT
                !.frames = Append(@, Frame("historical_data",
                                           Head(hq.queue).time_key, FALSE)),
                !.queue = Tail(@),
                !.pc = IF Len(hq.queue) = 1 THEN "picks" ELSE "waves"]
    /\ wire' = HistWire
    /\ UNCHANGED <<mgrVars, waveVars, bcVars, coreAux, exceptHq>>

\* lines 248-261: the picks of the range are read and, when there are
\* any, sent in one frame; an exception is logged
HistPicksBatch ==
    /\ hq.pc = "picks"
    /\ LET pick_packets == get_historical_picks(1, Len(feed["pick"]))
       IN hq' =
            IF hq.fault = "picks"
            THEN [hq EXCEPT !.pc = "done", !.failed = "picks"]
            ELSE IF pick_packets # <<>>
            THEN [hq EXCEPT !.pc = "done", !.picks = Len(pick_packets),
                            !.frames = Append(@, Frame("historical_picks_batch",
                                                       0, FALSE))]
            ELSE [hq EXCEPT !.pc = "done"]
    /\ wire' = HistWire
    /\ UNCHANGED <<mgrVars, waveVars, bcVars, coreAux, exceptHq>>

\* ---- the same request, one step per suspension point of the handler,
\* ---- for a client that may go away while it is served

\* history: a bus operation is issued; it is late when the client of the
\* request has gone away before
BusOp(op) ==
    [hq EXCEPT !.bus_ops = Append(@, op),
               !.late = IF hq.ws \in broken THEN Append(@, op) ELSE @]

\* lines 177-212: the request is received and the handler suspends in its
\* scan of the bus
HqScan(ws, stations, history) ==
    /\ hpc[ws] = "open"
    /\ ws \notin broken
    /\ hq.pc = "idle"
    /\ stations # <<>>
    /\ \E plan \in {Requested(ws, stations, history, "none")} :
          /\ plan.pc = "waves"
          /\ hq' = [NoRequest EXCEPT !.ws = ws, !.pc = "scan", !.plan = plan,
                                     !.bus_ops = <<"scan">>]
    /\ UNCHANGED <<mgrVars, waveVars, bcVars, coreAux, exceptHqWire>>

\* lines 217-227: the scan has returned; get_historical_waves_bulk issues
\* its pipeline of range-scans
HqRange ==
    /\ hq.pc = "scan"
    /\ hq' = [BusOp("xrange") EXCEPT !.pc = "xrange"]
    /\ UNCHANGED <<mgrVars, waveVars, bcVars, coreAux, exceptHqWire>>

\* lines 230-241: the packets are there; send_json is called for the first
HqSendCall ==
    /\ hq.pc = "xrange"
    /\ hq' = [hq.plan EXCEPT !.pc = "send", !.plan = hq.plan,
                             !.bus_ops = hq.bus_ops, !.late = hq.late]
    /\ UNCHANGED <<mgrVars, waveVars, bcVars, coreAux, exceptHqWire>>

\* line 241 returns: the frame is sent, the handler sleeps (line 243)
HqSendOk ==
    /\ hq.pc = "send"
    /\ hq.ws \notin broken
    /\ hq' = [hq EXCEPT
                !.frames = Append(@, Frame("historical_data",
                                           Head(hq.queue).time_key, FALSE)),
                !.queue = Tail(@),
                !.pc = "sleep"]
    /\ wire' = HistWire
    /\ UNCHANGED <<mgrVars, waveVars, bcVars, coreAux, exceptHq>>

\* line 241 raises, the client being gone: the except clause of line 267
\* calls send_json for the error frame, which raises again; the finally
\* clause closes the bus client and the handler's outer except clause
\* calls socket_manager.disconnect (lines 273-277)
HqSendFail ==
    /\ hq.pc = "send"
    /\ hq.ws \in broken
    /\ hq' = [hq EXCEPT !.pc = "done", !.failed = "send"]
    /\ ManagerDisconnect(hq.ws)
    /\ Forget(hq.ws)
    /\ hpc' = [hpc EXCEPT ![hq.ws] = "closed"]
    /\ UNCHANGED <<broken, stalled, waveRest, bcRest, coreAux, exceptHqWire>>

\* the sleep of line 243 ends: send_json is called for the next packet or,
\* after the last, get_historical_picks issues its range-scan (line 249)
HqSlept ==
    /\ hq.pc = "sleep"
    /\ hq' = IF hq.queue # <<>> THEN [hq EXCEPT !.pc = "send"]
             ELSE [BusOp("picks") EXCEPT !.pc = "picks"]
    /\ UNCHANGED <<mgrVars, waveVars, bcVars, coreAux, exceptHqWire>>

\* line 249 returns: send_json is called for the picks, when there are any
HqPicks ==
    /\ hq.pc = "picks"
    /\ hq' = IF get_historical_picks(1, Len(feed["pick"])) # <<>>
             THEN [hq EXCEPT !.pc = "send_picks"]
             ELSE [hq EXCEPT !.pc = "done"]
    /\ UNCHANGED <<mgrVars, waveVars, bcVars, coreAux, exceptHqWire>>

\* lines 253-259 return: the picks frame is sent
HqPicksOk ==
    /\ hq.pc = "send_picks"
    /\ hq.ws \notin broken
    /\ hq' = [hq EXCEPT
                !.pc = "done",
                !.picks = Len(get_historical_picks(1, Len(feed["pick"]))),
                !.frames = Append(@, Frame("historical_picks_batch", 0, FALSE))]
    /\ wire' = HistWire
    /\ UNCHANGED <<mgrVars, waveVars, bcVars, coreAux, exceptHq>>

\* lines 253-259 raise, the client being gone: the except clause of line
\* 260 logs and the handler goes back to receive_json
HqPicksFail ==
    /\ hq.pc = "send_picks"
    /\ hq.ws \in broken
    /\ hq' = [hq EXCEPT !.pc = "done", !.failed = "send"]
    /\ UNCHANGED <<mgrVars, waveVars, bcVars, coreAux, exceptHqWire>>

\* the handler is in receive_json, not in a request
Receiving(ws) == hq.ws = ws => hq.pc \in {"idle", "done"}

\* ------------------------------------------------------ signal processing
\* Samples are floats in the code; here a sample is the exact fraction
\* Ratio(num, den) with den > 0.
SameValue(a, b) == a.num * b.den = b.num * a.den

SameValues(v, w) ==
    /\ Len(v) = Len(w)
    /\ \A i \in 1..Len(v) : SameValue(v[i], w[i])

RECURSIVE SumOf(_)
SumOf(w) == IF w = <<>> THEN 0 ELSE Head(w) + SumOf(Tail(w))

\* np.pad(waveform, (0, max_len - len(waveform)), mode='constant')
np_pad(waveform, max_len) ==
    waveform \o [i \in 1..(max_len - Len(waveform)) |-> 0]

\* row - np.mean(row), and scipy's detrend(row, type="constant"): the mean
\* is taken over all the samples of the row it is given
demean(row) ==
    [i \in 1..Len(row) |-> Ratio(row[i] * Len(row) - SumOf(row), Len(row))]

\* The 4-pole Butterworth low-pass at 10 Hz for 100 Hz data (lowpass and
\* lowpass_sos build the same filter): the first samples of its impulse
\* response, in thousandths.  sosfilt is the causal convolution with it,
\* from a zero initial state.
LOWPASS_TAPS == <<5, 31, 91, 168>>
TAPS_SCALE == 1000

RECURSIVE Convolve(_, _, _)
Convolve(x, n, k) ==
    IF k > n THEN 0
    ELSE LOWPASS_TAPS[k] * x[n - k + 1].num + Convolve(x, n, k + 1)

sosfilt(x) ==
    [n \in 1..Len(x) |-> Ratio(Convolve(x, n, 1), x[n].den * TAPS_SCALE)]

\* signal_processing(waveform): demean over the array's samples, low-pass
signal_processing(waveform) == sosfilt(demean(waveform))

RECURSIVE MaxLenOf(_)
MaxLenOf(waveforms) ==
    IF waveforms = <<>> THEN 0
    ELSE Max(Len(Head(waveforms)), MaxLenOf(Tail(waveforms)))

\* batch_signal_processing(waveforms): pad to the longest, stack, subtract
\* each row's mean, filter along the rows, cut each row to its array's length
batch_signal_processing(waveforms) ==
    IF waveforms = <<>> THEN <<>>
    ELSE LET max_len == MaxLenOf(waveforms)
             stacked == [i \in 1..Len(waveforms) |->
                            np_pad(waveforms[i], max_len)]
             filtered == [i \in 1..Len(stacked) |-> sosfilt(demean(stacked[i]))]
         IN [i \in 1..Len(waveforms) |->
                SubSeq(filtered[i], 1, Len(waveforms[i]))]

\* np.linspace(0, 1, taper_len)[i - 1]
linspace01(i, taper_len) ==
    IF taper_len = 1 THEN Ratio(0, 1) ELSE Ratio(i - 1, taper_len - 1)

\* lines 395-403 for one processed waveform: the first min(len, 200)
\* samples are multiplied by a ramp from 0 to 1
TAPER_SAMPLES == 200
apply_taper(waveform) ==
    LET taper_len == Min(Len(waveform), TAPER_SAMPLES)
    IN [i \in 1..Len(waveform) |->
          IF i <= taper_len
          THEN Ratio(waveform[i].num * linspace01(i, taper_len).num,
                     waveform[i].den * linspace01(i, taper_len).den)
          ELSE waveform[i]]

NoSignal == [pc |-> "none", waveforms |-> <<>>, batch |-> <<>>,
             single |-> <<>>, once |-> <<>>, twice |-> <<>>]

\* the arrays of a batch: one to MaxSig samples
SigValues == {-1, 2}
SigArrays == UNION {[1..n -> SigValues] : n \in 1..MaxSig}
SigBatches == UNION {[1..n -> SigArrays] : n \in 1..MaxBatch}

\* the batch is processed, and each of its arrays alone
BatchCall ==
    /\ sp.pc = "batch"
    /\ sp' = [sp EXCEPT
                !.pc = "done",
                !.batch = batch_signal_processing(sp.waveforms),
                !.single = [i \in 1..Len(sp.waveforms) |->
                              signal_processing(sp.waveforms[i])]]
    /\ UNCHANGED <<mgrVars, waveVars, bcVars, coreAux, exceptSp>>

\* processed traces to taper: shorter than, as long as and longer than the
\* taper, with alternating sample values
TraceLens == {1, 2, 3, 4, TAPER_SAMPLES - 1, TAPER_SAMPLES, TAPER_SAMPLES + 1,
              MaxTrace}
Traces ==
    {[i \in 1..n |-> Ratio(IF i % 2 = 1 THEN a ELSE b, 1)] :
        n \in TraceLens, a \in {-1, 0, 2}, b \in {-1, 0, 2}}

\* the taper is applied to the processed trace
TaperCall ==
    /\ sp.pc = "taper"
    /\ sp' = [sp EXCEPT !.pc = "once", !.once = apply_taper(sp.waveforms[1])]
    /\ UNCHANGED <<mgrVars, waveVars, bcVars, coreAux, exceptSp>>

\* the taper is applied to the tapered trace
TaperAgain ==
    /\ sp.pc = "once"
    /\ sp' = [sp EXCEPT !.pc = "twice", !.twice = apply_taper(sp.once)]
    /\ UNCHANGED <<mgrVars, waveVars, bcVars, coreAux, exceptSp>>

\* ------------------------------------------- eew_backend.py: pick listener
EVENT_WINDOW == 10
STALE_AFTER == 10
TIME_STEP == 5
GATE_UPDATE_SEC == 2

NoMsg == [kind |-> "none", station |-> <<>>, pick_time |-> 0, update_sec |-> 0]

\* The messages of the pick ring: a "Restarting" notice, a message of
\* fewer than 13 columns, one of exactly 13 (it has no update_sec column),
\* and picks.
EwPick(station, pick_time, update_sec) ==
    [kind |-> "pick", station |-> station, pick_time |-> pick_time,
     update_sec |-> update_sec]
EwMessages ==
    {[NoMsg EXCEPT !.kind = kind] : kind \in {"restarting", "short", "thirteen"}}
    \cup {EwPick(station, pick_time, update_sec) :
            station \in Stations,
            pick_time \in {0, TIME_STEP, 2 * TIME_STEP},
            update_sec \in 0..MaxRingUpd}

\* join_id_from_dict(pick_data, order="NSLC")
EwPickId(msg) == WaveIdOf(SM, msg.station, LOC01, HLZ)

\* lines 414-417: the picks stored more than event_window seconds ago are
\* deleted
Expired(buffer, now) ==
    [id \in {x \in DOMAIN buffer : ~(buffer[x].sys_time + EVENT_WINDOW < now)}
        |-> buffer[id]]

\* a listener that stores every fresh pick, whatever its update_sec
PickStoredAlways(msg, now) ==
    /\ msg.kind = "pick"
    /\ ~(now > msg.pick_time + STALE_AFTER)

\* lines 431-448: the message is a pick that is stored.  "Restarting" and
\* short messages are passed over; a message of 13 columns makes
\* parse_pick_msg fail on column 13 and the except clause passes it over;
\* so is a pick older than 10 s, and one whose update_sec is not "2".
PickStored(msg, now) ==
    /\ msg.kind = "pick"
    /\ ~(now > msg.pick_time + STALE_AFTER)
    /\ msg.update_sec = GATE_UPDATE_SEC

\* One turn of earthworm_pick_listener with a message on the ring.
PickListenerStep(msg) ==
    /\ ew_msg' = msg
    /\ pick_buffer' =
          IF PickStored(msg, ew_now)
          THEN DictSet(Expired(pick_buffer, ew_now), EwPickId(msg),
                       [pick |-> msg, sys_time |-> ew_now])
          ELSE Expired(pick_buffer, ew_now)
    /\ UNCHANGED <<ew_now, baseVars, reader, tail3>>

\* One turn with no message on the ring: only the expiry runs.
PickListenerIdle ==
    /\ pick_buffer' = Expired(pick_buffer, ew_now)
    /\ ew_msg' = NoMsg
    /\ UNCHANGED <<ew_now, baseVars, reader, tail3>>

\* time passes
EwTick ==
    /\ ew_now + TIME_STEP <= MaxNow
    /\ ew_now' = ew_now + TIME_STEP
    /\ UNCHANGED <<pick_buffer, ew_msg, baseVars, reader, tail3>>

\* ------------------------------------- model/redis_adapter.py: get_picks
FETCH_FACTOR == 5

NoPicksCall == [done |-> FALSE, messages |-> <<>>, max_picks |-> 0,
                out |-> <<>>]

\* the pick records of the stream: two stations, updates 0 and 1, the
\* pick times not in the order of the stations
AdapterPick(station, update_sec, pick_time) ==
    [station |-> station, update_sec |-> update_sec, pick_time |-> pick_time]
AdapterPicks ==
    {AdapterPick(STA_A, 0, 2), AdapterPick(STA_A, 1, 3),
     AdapterPick(STA_B, 0, 1), AdapterPick(STA_B, 1, 1)}
AdapterRanges == UNION {[1..n -> AdapterPicks] : n \in 0..MaxRange}

\* xrange(stream_key, min, max, count=max_picks * 5): the first records of
\* the range, up to the count
xrange_count(messages, max_picks) ==
    SubSeq(messages, 1, Min(Len(messages), max_picks * FETCH_FACTOR))

\* best_picks after the loop over the fetched messages, as the list of its
\* values in insertion order: a record replaces its station's entry when
\* its update_sec is larger
RECURSIVE BestPicks(_, _)
BestPicks(messages, best) ==
    IF messages = <<>> THEN best
    ELSE LET pick == Head(messages)
             at == {i \in DOMAIN best : best[i].station = pick.station}
         IN BestPicks(Tail(messages),
              IF at = {} THEN Append(best, pick)
              ELSE [i \in DOMAIN best |->
                      IF i \in at /\ pick.update_sec > best[i].update_sec
                      THEN pick ELSE best[i]])

\* unique_picks.sort(key=pick_time_float): a stable sort
RECURSIVE SortByPickTime(_)
SortByPickTime(picks) ==
    IF picks = <<>> THEN <<>>
    ELSE LET first == CHOOSE i \in DOMAIN picks :
                        \A j \in DOMAIN picks :
                            \/ picks[i].pick_time < picks[j].pick_time
                            \/ (picks[i].pick_time = picks[j].pick_time /\ i <= j)
         IN <<picks[first]>> \o
            SortByPickTime([k \in 1..(Len(picks) - 1) |->
                              IF k < first THEN picks[k] ELSE picks[k + 1]])

\* RedisAdapter.get_picks on a range that holds the given records
get_picks(messages, max_picks) ==
    LET unique_picks ==
            SortByPickTime(BestPicks(xrange_count(messages, max_picks), <<>>))
    IN SubSeq(unique_picks, 1, Min(Len(unique_picks), max_picks))

GetPicks(messages, max_picks) ==
    /\ ~gp.done
    /\ gp' = [done |-> TRUE, messages |-> messages, max_picks |-> max_picks,
              out |-> get_picks(messages, max_picks)]
    /\ UNCHANGED <<baseVars, reader, ewVars, tail4>>

\* ------------------------------------------- the background reader tasks
ReaderTasks == {"wave", "pick", "eew"}

\* startup_event: each reader is created as a task and runs to its first
\* await, the xread of the pick and eew readers, the scan of the wave reader
StartedTask == [pc |-> "xread", must_cancel |-> FALSE, cancelled_at |-> "none"]

\* The awaits of a reader's loop, each named by where the task is suspended:
\* "xread" (the scan and the xread, in the try block), "send" (send_json,
\* in the try block of the manager's loop, itself in the reader's try
\* block), "sleep" (the wave reader's sleeps in its try block) and
\* "retry_sleep" (the sleep in the reader's except clause).
TaskAfter(t, pc) ==
    IF pc = "xread"
    THEN {"xread", "send", "retry_sleep"} \cup (IF t = "wave" THEN {"sleep"} ELSE {})
    ELSE IF pc = "send"
    THEN {"send", "xread"} \cup (IF t = "wave" THEN {"sleep"} ELSE {})
    ELSE {"xread"}

\* an interpreter in which CancelledError is an Exception (before 3.8)
CaughtAsException(exc) == exc \in {"Exception", "CancelledError"}

\* except Exception: CancelledError derives from BaseException
ExceptException(exc) == exc = "Exception"

\* Where the task goes on when the exception exc is thrown at the await
\* pc: the except clause of the manager's send loop (lines 138, 146, 154)
\* goes on with the loop, the except clause of the reader (lines 686, 748,
\* 789) sleeps; nothing encloses the sleep of the except clause.
AfterThrow(pc, exc) ==
    IF pc = "retry_sleep" \/ ~ExceptException(exc) THEN "done"
    ELSE IF pc = "send" THEN "send"
    ELSE "retry_sleep"

\* the task's await returns and it runs to its next await
TaskStep(t, to) ==
    /\ background_tasks[t].pc # "done"
    /\ ~background_tasks[t].must_cancel
    /\ to \in TaskAfter(t, background_tasks[t].pc)
    /\ background_tasks' = [background_tasks EXCEPT ![t].pc = to]
    /\ UNCHANGED <<shutdown, baseVars, reader, ewVars, gp, tail5>>

\* the bus call or the send the task awaits raises
TaskError(t) ==
    /\ background_tasks[t].pc \in {"xread", "send"}
    /\ ~background_tasks[t].must_cancel
    /\ background_tasks' =
          [background_tasks EXCEPT
              ![t].pc = AfterThrow(background_tasks[t].pc, "Exception")]
    /\ UNCHANGED <<shutdown, baseVars, reader, ewVars, gp, tail5>>

\* shutdown_event: task.cancel() for every task, then the gather
ShutdownEvent ==
    /\ shutdown = "running"
    /\ shutdown' = "gather"
    /\ background_tasks' =
          [t \in ReaderTasks |->
              [background_tasks[t] EXCEPT
                  !.must_cancel = background_tasks[t].pc # "done"]]
    /\ UNCHANGED <<baseVars, reader, ewVars, gp, tail5>>

\* the event loop throws CancelledError into the task at its await
TaskCancelled(t) ==
    /\ background_tasks[t].must_cancel
    /\ background_tasks' =
          [background_tasks EXCEPT
              ![t] = [pc |-> AfterThrow(background_tasks[t].pc, "CancelledError"),
                      must_cancel |-> FALSE,
                      cancelled_at |-> background_tasks[t].pc]]
    /\ UNCHANGED <<shutdown, baseVars, reader, ewVars, gp, tail5>>

\* await asyncio.gather(*background_tasks, return_exceptions=True) returns
GatherReturns ==
    /\ shutdown = "gather"
    /\ \A t \in ReaderTasks : background_tasks[t].pc = "done"
    /\ shutdown' = "done"
    /\ UNCHANGED <<background_tasks, baseVars, reader, ewVars, gp, tail5>>

\* --------------------------------------- dispatcher.py: sends on one socket
MaxFrames == 6      \* frames handed to the socket in one behaviour

NoSocket == [subscribed |-> FALSE, frames |-> <<>>, loop |-> "idle",
             handler |-> "receive"]

\* ws.send_json / ws.send_bytes: the frame is handed to the connection when
\* the call is made; the caller is then suspended until the send returns
DispSend(kind, by) == Append(dws.frames, [kind |-> kind, by |-> by])

\* websocket_endpoint: action == "subscribe"
DispSubscribe ==
    /\ dws.handler = "receive"
    /\ ~dws.subscribed
    /\ dws' = [dws EXCEPT !.subscribed = TRUE]
    /\ UNCHANGED <<baseVars, reader, ewVars, gp, bgVars, sio>>

\* redis_reader_loop, for an entry of a station the socket is subscribed
\* to: await ws.send_json(meta_ws)
LoopSendMeta ==
    /\ dws.loop = "idle"
    /\ dws.subscribed
    /\ Len(dws.frames) + 2 <= MaxFrames
    /\ dws' = [dws EXCEPT !.frames = DispSend("meta", "loop"),
                          !.loop = "send_json"]
    /\ UNCHANGED <<baseVars, reader, ewVars, gp, bgVars, sio>>

\* send_json has returned: await ws.send_bytes(payload_b)
LoopSendPayload ==
    /\ dws.loop = "send_json"
    /\ dws' = [dws EXCEPT !.frames = DispSend("binary", "loop"),
                          !.loop = "send_bytes"]
    /\ UNCHANGED <<baseVars, reader, ewVars, gp, bgVars, sio>>

\* send_bytes has returned: metrics["forwards"] += 1, next entry
LoopForwarded ==
    /\ dws.loop = "send_bytes"
    /\ dws' = [dws EXCEPT !.loop = "idle"]
    /\ UNCHANGED <<baseVars, reader, ewVars, gp, bgVars, sio>>

\* websocket_endpoint, action == "fetch_window": await ws.send_json(meta_ws)
FetchSendMeta ==
    /\ dws.handler = "receive"
    /\ Len(dws.frames) + 2 <= MaxFrames
    /\ dws' = [dws EXCEPT !.frames = DispSend("window_meta", "handler"),
                          !.handler = "send_json"]
    /\ UNCHANGED <<baseVars, reader, ewVars, gp, bgVars, sio>>

\* send_json has returned: await ws.send_bytes(arr.tobytes())
FetchSendBytes ==
    /\ dws.handler = "send_json"
    /\ dws' = [dws EXCEPT !.frames = DispSend("binary", "handler"),
                          !.handler = "send_bytes"]
    /\ UNCHANGED <<baseVars, reader, ewVars, gp, bgVars, sio>>

\* send_bytes has returned: the handler receives the next command
FetchDone ==
    /\ dws.handler = "send_bytes"
    /\ dws' = [dws EXCEPT !.handler = "receive"]
    /\ UNCHANGED <<baseVars, reader, ewVars, gp, bgVars, sio>>

\* ------------------------------------------ eew_backend.py: wave_emitter
NoWavePacket == [to |-> {}, data |-> {}, subs |-> EmptyMap]

NoSessions == [connected |-> {}, subscribed_stations |-> EmptyMap,
               wave_packet |-> NoWavePacket]

\* the sessions a call of socket_manager.emit reaches: the session named
\* by to=, every connected session when no to= is given
EmitTo(to) == IF to = NoConn THEN sio.connected ELSE {to} \cap sio.connected

\* on("connect")
SioConnect(sid) ==
    /\ sid \notin sio.connected
    /\ sio' = [sio EXCEPT !.connected = @ \cup {sid}]
    /\ UNCHANGED <<baseVars, reader, ewVars, gp, bgVars, dws>>

\* handle_subscribe_stations: a non-empty list replaces the session's set,
\* an empty list deletes the session's key
handle_subscribe_stations(sid, stations) ==
    /\ sid \in sio.connected
    /\ sio' = [sio EXCEPT !.subscribed_stations =
                  IF stations # {} THEN DictSet(@, sid, stations)
                  ELSE DictDel(@, sid)]
    /\ UNCHANGED <<baseVars, reader, ewVars, gp, bgVars, dws>>

\* handle_disconnect
handle_disconnect(sid) ==
    /\ sid \in sio.connected
    /\ sio' = [sio EXCEPT !.connected = @ \ {sid},
                          !.subscribed_stations = DictDel(@, sid)]
    /\ UNCHANGED <<baseVars, reader, ewVars, gp, bgVars, dws>>

\* wave_emitter, one batch: the entries whose station is in the union of
\* all the sessions' sets go into one wave_packet, emitted without to=
wave_emitter(batch) ==
    /\ batch # {}
    /\ DOMAIN sio.subscribed_stations # {}
    /\ LET all_subscribed == UNION Range(sio.subscribed_stations)
           filtered_batch == batch \cap all_subscribed
       IN /\ filtered_batch # {}
          /\ sio' = [sio EXCEPT !.wave_packet =
                        [to |-> EmitTo(NoConn), data |-> filtered_batch,
                         subs |-> sio.subscribed_stations]]
    /\ UNCHANGED <<baseVars, reader, ewVars, gp, bgVars, dws>>

NoProto == [ws |-> NoConn, kind |-> "none", frames |-> <<>>, before |-> {}]

\* the frames a handler cannot process: text that is not JSON, an event
\* name no branch handles, a known event without a "data" object
ProtocolErrors == {"bad_json", "unknown_event", "missing_data"}

\* The handler's loop on such a frame.  receive_json raises on text that is
\* not JSON (line 164) and payload.get raises on a missing payload (lines
\* 169, 174, 179): both reach the except clause of line 275 and
\* socket_manager.disconnect.  An unknown event matches no branch and the
\* loop receives the next frame.  No frame is sent in either case.
ProtocolError(ws, kind) ==
    /\ hpc[ws] = "open"
    /\ ws \notin broken
    /\ proto' = [ws |-> ws, kind |-> kind, frames |-> <<>>,
                 before |-> subscribed_stations[ws]]
    /\ IF kind = "unknown_event"
       THEN UNCHANGED <<mgrVars, waveVars, bcVars>>
       ELSE /\ ManagerDisconnect(ws)
            /\ Forget(ws)
            /\ hpc' = [hpc EXCEPT ![ws] = "closed"]
            /\ broken' = broken \cup {ws}
            /\ UNCHANGED <<stalled, waveRest, bcRest>>
    /\ UNCHANGED <<coreAux, dispVars, down, hq, proxyVars, bus_error, wire, sp,
                   tailVars>>

\* the station lists of a historical request
HistLists == {<<STA_A>>, <<STA_A, STA_B>>, <<STA_B, STA_A>>, <<ALL_Z>>,
              <<ALL_Z, STA_A>>}

\* ----------------------------------- downsampling in send_wave_packet
NoDown == [called |-> FALSE, samprate |-> 0, width_set |-> FALSE, width |-> 0,
           n |-> 0, entry |-> <<>>]

\* the sampling rates and the display widths tried
SampRates == {1, 8, 25, 100}
DownWidths == {1, 7, 1000, 1201}

\* lines 100-127 for one registered client and one wave entry of n samples
DownCall(ws, samprate, n) ==
    /\ ws \in DOMAIN subscribed_stations
    /\ LET wave_id == WaveIdOf(SM, STA_A, LOC01, HLZ)
           wave_data == [waveform |-> [i \in 1..n |-> i], pga |-> n,
                         samprate |-> samprate, key |-> KeySeq[1]]
           width == ResolutionOf(ws)
           batch == DictSet(EmptyMap, wave_id, wave_data)
       IN down' = [called |-> TRUE, samprate |-> samprate,
                   width_set |-> ws \in DOMAIN client_resolutions,
                   width |-> width, n |-> n,
                   entry |-> ClientPacket(batch, {wave_id}, width)[wave_id]]
    /\ UNCHANGED <<mgrVars, waveVars, bcVars, coreAux, exceptDown>>

\* ----------------------------------------------------------------- proxy.py
NoPayload == 0

\* a put that makes room by discarding the oldest queued message
put_drop_oldest(q, drops, msg) ==
    IF Len(q) >= QUEUE_MAXSIZE
    THEN [queue |-> Append(Tail(q), msg), drops |-> drops + 1]
    ELSE [queue |-> Append(q, msg), drops |-> drops]

\* a put that discards the incoming message on a full queue without
\* counting it
put_drop_uncounted(q, drops, msg) ==
    IF Len(q) >= QUEUE_MAXSIZE
    THEN [queue |-> q, drops |-> drops]
    ELSE [queue |-> Append(q, msg), drops |-> drops]

\* _queue_put_nowait_safe: q.put_nowait(payload) raises QueueFull on a full
\* queue, and the except clause counts the drop
queue_put_nowait_safe(q, drops, msg) ==
    IF Len(q) >= QUEUE_MAXSIZE
    THEN [queue |-> q, drops |-> drops + 1]
    ELSE [queue |-> Append(q, msg), drops |-> drops]

\* blocking_reader gets a message from the ring and schedules the put on
\* the event loop; the thread goes on at once.  Messages are numbered in
\* read order.
ReaderRead ==
    /\ reads < MaxMsgs
    /\ reads' = reads + 1
    /\ scheduled' = Append(scheduled, reads + 1)
    /\ UNCHANGED <<message_queue, drops_queue_full, payload, msgs_sent,
                   broadcasts>>
    /\ UNCHANGED <<mgrVars, waveVars, bcVars, coreAux, exceptProxy>>

\* the event loop runs the oldest scheduled _queue_put_nowait_safe
QueuePut ==
    /\ scheduled # <<>>
    /\ LET r == queue_put_nowait_safe(message_queue, drops_queue_full,
                                      Head(scheduled))
       IN /\ message_queue' = r.queue
          /\ drops_queue_full' = r.drops
    /\ scheduled' = Tail(scheduled)
    /\ UNCHANGED <<reads, payload, msgs_sent, broadcasts>>
    /\ UNCHANGED <<mgrVars, waveVars, bcVars, coreAux, exceptProxy>>

\* broadcaster_task: payload = await message_queue.get()
BroadcasterGet ==
    /\ payload = NoPayload
    /\ message_queue # <<>>
    /\ payload' = Head(message_queue)
    /\ message_queue' = Tail(message_queue)
    /\ UNCHANGED <<reads, scheduled, drops_queue_full, msgs_sent,
                   broadcasts>>
    /\ UNCHANGED <<mgrVars, waveVars, bcVars, coreAux, exceptProxy>>

\* broadcaster_task: the broadcast of the payload returns
BroadcastDone ==
    /\ payload # NoPayload
    /\ payload' = NoPayload
    /\ msgs_sent' = msgs_sent + 1
    /\ broadcasts' = Append(broadcasts, payload)
    /\ UNCHANGED <<reads, scheduled, message_queue, drops_queue_full>>
    /\ UNCHANGED <<mgrVars, waveVars, bcVars, coreAux, exceptProxy>>

\* ------------------------------------------------------------ dispatcher.py
\* NSAMPLE = WINDOW_SEC * SR
NSAMPLE == WINDOW_SEC * SR

\* np.zeros(NSAMPLE, dtype=DTYPE)
Zeros == [i \in 1..NSAMPLE |-> 0]

\* the last n elements of a sequence of at least n elements
LastOf(w, n) == SubSeq(w, Len(w) - n + 1, Len(w))

\* a write that leaves the write index alone when the packet fills the window
circular_write_keep_idx(buf, idx, arr) ==
    LET n == Len(arr)
        end == (idx + n) % NSAMPLE
        a == NSAMPLE - idx
    IN IF n >= NSAMPLE
       THEN [buf |-> LastOf(arr, NSAMPLE), idx |-> idx]
       ELSE IF idx + n <= NSAMPLE
       THEN [buf |-> [i \in 1..NSAMPLE |->
                        IF i > idx /\ i <= idx + n THEN arr[i - idx] ELSE buf[i]],
             idx |-> end]
       ELSE [buf |-> [i \in 1..NSAMPLE |->
                        IF i > idx THEN arr[i - idx]
                        ELSE IF i <= end THEN arr[a + i] ELSE buf[i]],
             idx |-> end]

\* circular_write, after ensure_station_buffer: the buffer and the write
\* index the locked section leaves
circular_write(buf, idx, arr) ==
    LET n == Len(arr)
        end == (idx + n) % NSAMPLE
        a == NSAMPLE - idx
    IN IF n >= NSAMPLE
       THEN [buf |-> LastOf(arr, NSAMPLE), idx |-> 0]
       ELSE IF idx + n <= NSAMPLE
       THEN [buf |-> [i \in 1..NSAMPLE |->
                        IF i > idx /\ i <= idx + n THEN arr[i - idx] ELSE buf[i]],
             idx |-> end]
       ELSE [buf |-> [i \in 1..NSAMPLE |->
                        IF i > idx THEN arr[i - idx]
                        ELSE IF i <= end THEN arr[a + i] ELSE buf[i]],
             idx |-> end]

\* an assembly that does not rotate the buffer
assemble_unrotated(station) ==
    IF station \notin DOMAIN buffers THEN Zeros ELSE buffers[station]

\* assemble_last_window
assemble_last_window(station) ==
    IF station \notin DOMAIN buffers THEN Zeros
    ELSE LET idx == write_idx[station]
             buf == buffers[station]
         IN IF idx = 0 THEN buf
            ELSE SubSeq(buf, idx + 1, NSAMPLE) \o SubSeq(buf, 1, idx)

NoWindow == [taken |-> FALSE, station |-> <<>>, data |-> <<>>, count |-> 0,
             idx |-> 0, during |-> "none"]

DispSamples == Len(disp_written[STA_A]) + Len(disp_written[STA_B])
DispWrites == Len(disp_sizes[STA_A]) + Len(disp_sizes[STA_B])

\* the samples of the next packet: fresh values, so that order is visible
NextSamples(n) == [i \in 1..n |-> DispSamples + i]

\* redis_reader_loop hands a packet of n samples to circular_write
CircularWrite(station, n) ==
    /\ DispWrites < MaxWrites
    /\ DispSamples + n <= MaxSamples
    /\ LET arr == NextSamples(n)
           buf == IF station \in DOMAIN buffers THEN buffers[station] ELSE Zeros
           idx == IF station \in DOMAIN write_idx THEN write_idx[station] ELSE 0
           r == circular_write(buf, idx, arr)
       IN /\ buffers' = DictSet(buffers, station, r.buf)
          /\ write_idx' = DictSet(write_idx, station, r.idx)
          /\ disp_written' = [disp_written EXCEPT ![station] = @ \o arr]
          /\ disp_sizes' = [disp_sizes EXCEPT ![station] = Append(@, n)]
    /\ UNCHANGED <<window, exceptDisp>>
    /\ UNCHANGED <<mgrVars, waveVars, bcVars, coreAux>>

\* a REST handler or fetch_window calls assemble_last_window
AssembleLastWindow(station) ==
    /\ window' = [taken |-> TRUE, station |-> station,
                  data |-> assemble_last_window(station),
                  count |-> Len(disp_written[station]),
                  idx |-> IF station \in DOMAIN write_idx
                          THEN write_idx[station] ELSE 0,
                  during |-> reader.pc]
    /\ UNCHANGED <<buffers, write_idx, disp_written, disp_sizes, exceptDisp>>
    /\ UNCHANGED <<mgrVars, waveVars, bcVars, coreAux>>

\* ---- the same write, statement by statement, with the reader task's
\* ---- suspension points

\* suspended in xread, no packet in hand
ReaderIdle == [pc |-> "xread", station |-> <<>>, arr |-> <<>>]

\* a handler that runs whichever statement the reader task has reached
ReaderAnywhere == TRUE

\* The reader task is suspended in an await: r.xread (line 98), or a
\* ws.send_json / ws.send_bytes of the forwarding (lines 134-135).  The
\* handlers are coroutines of the same event loop, so one runs only then:
\* ensure_station_buffer has no await of its own, the station's lock is
\* taken by the reader task alone and so never waited for, and the locked
\* section (lines 64-79) has no await.
ReaderSuspended == reader.pc \in {"xread", "forward"}

\* xread returns an entry for the station; circular_write is entered
\* (lines 98-117, 62-66), the buffer being created if it is missing
ReaderEntry(station, n) ==
    /\ reader.pc = "xread"
    /\ DispWrites < MaxWrites
    /\ DispSamples + n <= MaxSamples
    /\ reader' = [pc |-> "buffer", station |-> station, arr |-> NextSamples(n)]
    /\ buffers' = IF station \in DOMAIN buffers THEN buffers
                  ELSE DictSet(buffers, station, Zeros)
    /\ write_idx' = IF station \in DOMAIN write_idx THEN write_idx
                    ELSE DictSet(write_idx, station, 0)
    /\ UNCHANGED <<disp_written, disp_sizes, window, exceptDispReader>>
    /\ UNCHANGED <<mgrVars, waveVars, bcVars, coreAux>>

\* the slice assignments to buffers[station] (lines 69, 74, 77-78)
WriteBuffer ==
    /\ reader.pc = "buffer"
    /\ buffers' = DictSet(buffers, reader.station,
                          circular_write(buffers[reader.station],
                                         write_idx[reader.station],
                                         reader.arr).buf)
    /\ reader' = [reader EXCEPT !.pc = "index"]
    /\ UNCHANGED <<write_idx, disp_written, disp_sizes, window,
                   exceptDispReader>>
    /\ UNCHANGED <<mgrVars, waveVars, bcVars, coreAux>>

\* write_idx[station] = 0 or end (lines 70, 79); the write is complete and
\* the task goes on to forward the packet
WriteIndex ==
    /\ reader.pc = "index"
    /\ write_idx' = DictSet(write_idx, reader.station,
                            circular_write(buffers[reader.station],
                                           write_idx[reader.station],
                                           reader.arr).idx)
    /\ disp_written' = [disp_written EXCEPT ![reader.station] = @ \o reader.arr]
    /\ disp_sizes' = [disp_sizes EXCEPT ![reader.station] =
                         Append(@, Len(reader.arr))]
    /\ reader' = [reader EXCEPT !.pc = "forward"]
    /\ UNCHANGED <<buffers, window, exceptDispReader>>
    /\ UNCHANGED <<mgrVars, waveVars, bcVars, coreAux>>

\* the forwarding ends; the task is back in xread
ReaderForwarded ==
    /\ reader.pc = "forward"
    /\ reader' = ReaderIdle
    /\ UNCHANGED <<dispVars, exceptDispReader>>
    /\ UNCHANGED <<mgrVars, waveVars, bcVars, coreAux>>

\* a REST handler or fetch_window runs and takes its snapshot
Snapshot(station) ==
    /\ ReaderSuspended
    /\ AssembleLastWindow(station)

\* the packet sizes tried: none, one, just under, exactly and over the window
WriteSizes == {0, 1, NSAMPLE - 1, NSAMPLE, NSAMPLE + 1}

\* ------------------------------------------- the filter of send_wave_packet
\* applied to a batch given directly
AllWaveIds == {WaveIdOf(SM, s, LOC01, c) : s \in Stations, c \in Channels}
FilterInputs ==
    {[sub |-> sub, ids |-> ids, given |-> TRUE] :
        sub \in SUBSET Codes,
        ids \in {x \in SUBSET AllWaveIds : x # {} /\ Cardinality(x) <= MaxBatch}}
NoInput == [sub |-> {}, ids |-> {}, given |-> FALSE]

NoOutput == [done |-> FALSE, ids |-> {}]

\* lines 78-98 for one client: an empty set is passed over, else filtered
FilterCall ==
    /\ flt_in.given
    /\ ~flt_out.done
    /\ flt_out' = [done |-> TRUE,
                   ids |-> IF flt_in.sub = {} THEN {}
                           ELSE FilterBatch(flt_in.sub, flt_in.ids)]
    /\ UNCHANGED <<send_failed, hist_picks, hist_range, flt_in, last_subscribe,
                   extVars>>
    /\ UNCHANGED <<mgrVars, waveVars, bcVars>>

\* ---------------------------------------------------------- specifications
InitCore ==
    /\ active_connections = <<>>
    /\ sub_entries = <<>>
    /\ subscribed_stations = EmptyMap
    /\ client_resolutions = EmptyMap
    /\ hpc = [ws \in Conn |-> "new"]
    /\ broken = {}
    /\ stalled = {}
    /\ bus = [k \in Keys |-> <<>>]
    /\ stream_ids = EmptyMap
    /\ scanned = FALSE
    /\ wpc = "poll"
    /\ wave_batch = EmptyMap
    /\ it = IdleIter
    /\ send_to = NoConn
    /\ send_frame = EmptyMap
    /\ fan_log = <<>>
    /\ delivered = [k \in Keys |-> <<>>]
    /\ returned = [k \in Keys |-> <<>>]
    /\ tick_owed = EmptyMap
    /\ tick_sent = {}
    /\ wave_missed = EmptyMap
    /\ feed = [k \in Kinds |-> <<>>]
    /\ last_id = [k \in Kinds |-> InitialLastId(k)]
    /\ xread_tip = [k \in Kinds |-> 0]
    /\ bpc = [k \in Kinds |-> "idle"]
    /\ resp = [k \in Kinds |-> <<>>]
    /\ packet = [k \in Kinds |-> NoPacket]
    /\ bidx = [k \in Kinds |-> NoTarget]
    /\ bc_throughout = [k \in Kinds |-> {}]
    /\ bc_sent = [k \in Kinds |-> {}]
    /\ bc_missed = [k \in Kinds |-> {}]
    /\ sent_log = [k \in Kinds |-> <<>>]
    /\ first_tip = [k \in Kinds |-> NotStarted]
    /\ send_failed = {}
    /\ hist_picks = <<>>
    /\ hist_range = <<0, 0>>
    /\ flt_out = NoOutput
    /\ last_subscribe = NoCall
    /\ buffers = EmptyMap
    /\ write_idx = EmptyMap
    /\ disp_written = [station \in Stations |-> <<>>]
    /\ disp_sizes = [station \in Stations |-> <<>>]
    /\ window = NoWindow
    /\ down = NoDown
    /\ hq = NoRequest
    /\ proto = NoProto
    /\ bus_error = [last |-> "none", seen |-> FALSE, mark |-> 0]
    /\ reader = ReaderIdle
    /\ pick_buffer = EmptyMap
    /\ ew_now = 0
    /\ ew_msg = NoMsg
    /\ gp = NoPicksCall
    /\ background_tasks = [t \in ReaderTasks |-> StartedTask]
    /\ shutdown = "running"
    /\ dws = NoSocket
    /\ sio = NoSessions
    /\ reads = 0
    /\ scheduled = <<>>
    /\ message_queue = <<>>
    /\ drops_queue_full = 0
    /\ payload = NoPayload
    /\ msgs_sent = 0
    /\ broadcasts = <<>>

Init == InitCore /\ flt_in = NoInput /\ audit = FALSE /\ wire = NoWire /\ sp = NoSignal

\* Clients and the live wave path.

Next ==
    \/ \E ws \in Conn : Connect(ws)
    \/ \E ws \in Conn : InitSent(ws)
    \/ \E ws \in Conn : hpc[ws] = "open" /\ ClientGone(ws)
    \/ \E ws \in Conn : Disconnect(ws)
    \/ \E ws \in Conn \ broken, stations \in LiveLists : Subscribe(ws, stations)
    \/ \E k \in LiveKeys : wpc # "send" /\ XAddWave(k, <<1>>)
    \/ \E scan \in BOOLEAN : WavePoll(scan)
    \/ WaveSendOk
    \/ WaveSendFail
    \/ WaveWake

Spec == Init /\ [][Next]_vars

\* The wave reader alone, on streams of any records.
NextWave ==
    \/ \E k \in Keys, data \in NewData : XAddWave(k, data)
    \/ \E k \in Keys : XAddBad(k)
    \/ \E scan \in BOOLEAN : WavePoll(scan)
    \/ WaveWake

InitWave == InitCore /\ flt_in = NoInput /\ audit = TRUE /\ wire = NoWire /\ sp = NoSignal

\* every record of stream k has been returned by a poll
AllRead(k) == Len(bus[k]) = Len(returned[k])

\* The live reader with producers that write a stream no faster than it is
\* read, some of their records malformed: a poll returns at most one record
\* of a stream.
NextBad ==
    \/ \E k \in Keys : AllRead(k) /\ XAddWave(k, <<TotalRecs + 1>>)
    \/ \E k \in Keys : AllRead(k) /\ XAddBad(k)
    \/ \E scan \in BOOLEAN : WavePoll(scan)
    \/ WaveWake

SpecBad == InitWave /\ [][NextBad]_vars

\* The live reader with a bus whose calls may raise.
NextOutage ==
    \/ \E k \in LiveKeys : XAddWave(k, <<TotalRecs + 1>>)
    \/ \E scan \in BOOLEAN : WavePoll(scan)
    \/ bus_error.last = "none" /\ WaveWake
    \/ WaveScanFail
    \/ \E scan \in BOOLEAN : WaveXReadFail(scan)
    \/ WaveRetry

SpecOutage == InitWave /\ [][NextOutage]_vars

\* The live reader over records with the network codes SM and TW.
NextNames ==
    \/ \E k \in Keys : XAddWave(k, <<TotalRecs + 1>>)
    \/ \E k \in Keys : XAddLegacy(k, <<TotalRecs + 1>>)
    \/ \E scan \in BOOLEAN : WavePoll(scan)
    \/ WaveWake

SpecNames == InitWave /\ [][NextNames]_vars

SpecWave == InitWave /\ [][NextWave]_vars

\* The connection handlers and the registry.
NextConn ==
    \/ \E ws \in Conn : Connect(ws)
    \/ \E ws \in Conn : InitSent(ws)
    \/ \E ws \in Conn : InitFail(ws)
    \/ \E ws \in Conn : ClientGone(ws)
    \/ \E ws \in Conn : Disconnect(ws)
    \/ \E ws \in Conn : HandlerError(ws)
    \/ \E ws \in Conn, stations \in StationLists : Subscribe(ws, stations)
    \/ \E ws \in Conn, width \in Widths : SetResolution(ws, width)

SpecConn == Init /\ [][NextConn]_vars

\* Clients that subscribe and set their width, with the history of the
\* subscribe() calls kept.
NextSub ==
    \/ \E ws \in Conn : Connect(ws)
    \/ \E ws \in Conn : InitSent(ws)
    \/ \E ws \in Conn : HandlerError(ws)
    \/ \E ws \in Conn, stations \in StationLists : Subscribe(ws, stations)
    \/ \E ws \in Conn : SetResolution(ws, DEFAULT_WIDTH)

InitSub == InitCore /\ flt_in = NoInput /\ audit = TRUE /\ wire = NoWire /\ sp = NoSignal

SpecSub == InitSub /\ [][NextSub]_vars

\* Clients and the pick and eew broadcasts.
NextBcast ==
    \/ \E ws \in Conn : Connect(ws)
    \/ \E ws \in Conn : InitSent(ws)
    \/ \E ws \in Conn : ClientGone(ws)
    \/ \E ws \in Conn : Disconnect(ws)
    \/ \E u \in 0..MaxUpd : XAddFeed("pick", PickRec(STA_A, HLZ, 1, u, 0))
    \/ BIssue("pick")
    \/ BReturn("pick")
    \/ BSendOk("pick")
    \/ BSendFail("pick")

SpecBcast == Init /\ [][NextBcast]_vars

\* The three readers from their start, with streams that may hold records
\* before a reader's first read, and one client.
NextStart ==
    \/ Connect(1)
    \/ InitSent(1)
    \/ \E k \in LiveKeys : XAddWave(k, <<TotalRecs + 1>>)
    \/ \E scan \in BOOLEAN : WavePoll(scan)
    \/ WaveWake
    \/ XAddFeed("pick", PickRec(STA_A, HLZ, 1, 0, 0))
    \/ XAddFeed("eew", TextRec)
    \/ \E k \in Kinds : BIssue(k)
    \/ \E k \in Kinds : BReturn(k)
    \/ \E k \in Kinds : BSendOk(k)

SpecStart == InitWave /\ [][NextStart]_vars

\* The historical pick query over a pick stream of any records.
NextHist ==
    \/ \E msg \in PickRecs \cup {TextRec, NoDataRec} : XAddFeed("pick", msg)
    \/ \E lo \in 1..(Len(feed["pick"]) + 1), hi \in 0..Len(feed["pick"]) :
          lo <= hi + 1 /\ HistPicks(lo, hi)

SpecHist == Init /\ [][NextHist]_vars

\* The subscription filter on a batch and a subscription set of any content.
InitFilter == InitCore /\ flt_in \in FilterInputs /\ audit = FALSE /\ wire = NoWire /\ sp = NoSignal

NextFilter == FilterCall

SpecFilter == InitFilter /\ [][NextFilter]_vars

\* Downsampling for a client with and without a display resolution.
NextDown ==
    \/ Connect(1)
    \/ InitSent(1)
    \/ \E width \in DownWidths : SetResolution(1, width)
    \/ \E samprate \in SampRates, n \in 0..MaxWave : DownCall(1, samprate, n)

SpecDown == Init /\ [][NextDown]_vars

\* Frames a handler cannot process.
NextProto ==
    \/ \E ws \in Conn : Connect(ws)
    \/ \E ws \in Conn : InitSent(ws)
    \/ \E ws \in Conn, stations \in LiveLists : Subscribe(ws, stations)
    \/ \E ws \in Conn, kind \in ProtocolErrors : ProtocolError(ws, kind)

SpecProto == Init /\ [][NextProto]_vars

\* Historical requests of one client.
NextHq ==
    \/ Connect(1)
    \/ InitSent(1)
    \/ \E msg \in {PickRec(STA_A, HLZ, 1, 0, 0), TextRec} : XAddFeed("pick", msg)
    \/ \E stations \in HistLists, history \in Histories, fault \in BusFaults :
          HistRequest(1, stations, history, fault)
    \/ HistSend
    \/ HistPicksBatch

SpecHq == Init /\ [][NextHq]_vars

\* The proxy's reader thread, queue and broadcaster.
NextProxy == ReaderRead \/ QueuePut \/ BroadcasterGet \/ BroadcastDone

SpecProxy == Init /\ [][NextProxy]_vars

\* The dispatcher's station buffers.
NextBuf ==
    \/ \E station \in Stations, n \in WriteSizes : CircularWrite(station, n)
    \/ \E station \in Stations : AssembleLastWindow(station)

SpecBuf == Init /\ [][NextBuf]_vars

\* The live wave path with clients that may stop reading; the event loop
\* runs every coroutine that can run.
NextFair ==
    \/ \E ws \in Conn : Connect(ws)
    \/ \E ws \in Conn : InitSent(ws)
    \/ \E ws \in Conn \ stalled, stations \in LiveLists : Subscribe(ws, stations)
    \/ \E ws \in Conn : Stall(ws)
    \/ \E k \in LiveKeys : wpc # "send" /\ XAddWave(k, <<1>>)
    \/ \E scan \in BOOLEAN : WavePoll(scan)
    \/ WaveSendOk
    \/ WaveWake

ReaderStep == (\E scan \in BOOLEAN : WavePoll(scan)) \/ WaveSendOk \/ WaveWake

FairLive == Init /\ [][NextFair]_vars /\ WF_vars(ReaderStep)

\* The same with producers that write at any time and the clock running:
\* a reader that keeps coming back to the top of its loop finds the scan
\* interval elapsed again and again.
NextScan ==
    \/ \E ws \in Conn : Connect(ws)
    \/ \E ws \in Conn : InitSent(ws)
    \/ \E ws \in Conn \ stalled, stations \in LiveLists : Subscribe(ws, stations)
    \/ \E ws \in Conn : Stall(ws)
    \/ \E k \in LiveKeys : XAddWave(k, <<1>>)
    \/ \E scan \in BOOLEAN : WavePoll(scan)
    \/ WaveSendOk
    \/ WaveWake

FairScan ==
    Init /\ [][NextScan]_vars /\ WF_vars(ReaderStep) /\ SF_vars(WavePoll(TRUE))

\* ------------------------------------------------------------------ claims
\* the samples of the records of stream k up to the last-seen id, in bus order
ReadSamples(k) == Flatten([i \in 1..stream_ids[k] |-> bus[k][i].data])

\* C1: for every tailed wave stream, the samples handed to the fanout, in
\* delivery order, are the samples of the records read so far, in bus order:
\* no record read is left out of the ticks, whatever number of records a
\* poll returns for a key.
C1_DeliveredMatchesBus ==
    \A k \in DOMAIN stream_ids : delivered[k] = ReadSamples(k)

\* The subscription of the specification: a wave_id is covered when its
\* station component is in the set, or the set holds "__ALL_Z__" and the
\* wave_id's channel ends with Z.
Covers(sub, wave_id) ==
    \/ Split(wave_id)[2] \in sub
    \/ ALL_Z \in sub /\ EndsWithZ(Split(wave_id)[4])

Covered(sub, wave_ids) == {wave_id \in wave_ids : Covers(sub, wave_id)}

\* C19: over any sequence of polls xread returns each record of a tailed
\* key exactly once, in id order with none skipped, up to the last-seen id
\* of the key (which therefore never decreases).
C19_EachRecordReturnedOnce ==
    \A k \in DOMAIN stream_ids :
        /\ returned[k] = [i \in 1..Len(returned[k]) |-> i]
        /\ stream_ids[k] <= Len(returned[k])

\* C20: a newly discovered wave key is first read from 0-0, so the first
\* record returned for it is the first the stream holds, while the pick and
\* the eew reader start from the tip: no record the stream held at the
\* reader's first read is ever broadcast.
C20_StartOffsets ==
    /\ \A k \in DOMAIN stream_ids :
          returned[k] # <<>> => returned[k][1] = 1
    /\ \A k \in Kinds :
          \A i \in DOMAIN sent_log[k] : sent_log[k][i].id > first_tip[k]

\* the historical_data frames of the request that carry a window
HistSent ==
    SelectSeq(hq.frames, LAMBDA f : f.event = "historical_data" /\ ~f.empty)

\* C11: the historical_data frames of one request are sent in strictly
\* ascending window key order, and once all are sent every window key of
\* the result has been sent exactly once.
C11_AscendingWindows ==
    /\ \A i \in 1..(Len(HistSent) - 1) :
          HistSent[i].time_key < HistSent[i + 1].time_key
    /\ (hq.pc \in {"picks", "done"} /\ hq.inserted # <<>>) =>
          /\ {HistSent[i].time_key : i \in DOMAIN HistSent} = Range(hq.inserted)
          /\ Len(HistSent) = Cardinality(Range(hq.inserted))

\* C11 witness: a finished request of three or more windows whose window
\* keys were not created in ascending order.
C11_Witness ==
    /\ hq.pc = "done"
    /\ Len(HistSent) >= 3
    /\ \E i \in 1..(Len(hq.inserted) - 1) : hq.inserted[i] > hq.inserted[i + 1]

\* the windows of one wave_id in the packets of the request
WindowsOf(wave_id) ==
    LET with == SelectSeq(hq.packets, LAMBDA pk : wave_id \in DOMAIN pk.batch)
    IN [i \in DOMAIN with |-> with[i].batch[wave_id]]

\* C12: for each wave_id the emitted windows partition the trace: every
\* sample lies in exactly one window, the windows' intervals do not
\* overlap, and their union covers the data available in the range, also
\* when the stored records are not contiguous in time.
C12_WindowsPartition ==
    \A d \in Range(hq.data) :
        LET w == WindowsOf(d.wave_id)
        IN /\ \A t \in d.times :
                Cardinality({i \in DOMAIN w : t \in Range(w[i].waveform)}) = 1
           /\ \A i, j \in DOMAIN w :
                i < j => (w[i].endt <= w[j].startt \/ w[j].endt <= w[i].startt)
           /\ \A t \in d.times :
                \E i \in DOMAIN w : w[i].startt <= t /\ t <= w[i].endt

\* C13: a request that completes without a bus error has sent exactly one
\* historical_picks_batch frame, after all its historical_data frames,
\* whether or not any waveform or any pick was found.
C13_OnePicksBatch ==
    (hq.pc = "done" /\ hq.failed = "none") =>
      /\ Cardinality({i \in DOMAIN hq.frames :
                        hq.frames[i].event = "historical_picks_batch"}) = 1
      /\ hq.frames[Len(hq.frames)].event = "historical_picks_batch"

\* C14: a request in which the key scan, the waveform range-scan or the
\* pick range-scan failed has ended with one error frame to the
\* requester, whose connection is still open and registered.
C14_BusErrorFrame ==
    (hq.pc = "done" /\ hq.failed # "none") =>
      /\ Cardinality({i \in DOMAIN hq.frames : hq.frames[i].event = "error"}) = 1
      /\ hpc[hq.ws] = "open"
      /\ hq.ws \in Range(active_connections)
      /\ hq.ws \in DOMAIN subscribed_stations

\* C15: a frame that is not valid JSON, names an unknown event or lacks
\* its data payload is answered with an error frame, and the connection
\* stays open and registered with its subscription unchanged.
C15_ProtocolErrorKeepsConnection ==
    [][proto' # proto =>
         /\ \E i \in DOMAIN proto'.frames : proto'.frames[i].event = "error"
         /\ hpc'[proto'.ws] = "open"
         /\ proto'.ws \in Range(active_connections')
         /\ proto'.ws \in DOMAIN subscribed_stations'
         /\ subscribed_stations'[proto'.ws] = subscribed_stations[proto'.ws]]_vars

\* floor(a / b) and ceil(a / b) for positive b, from their definitions
FloorDiv(a, b) == CHOOSE q \in 0..a : q * b <= a /\ (q + 1) * b > a
CeilDiv(a, b) == CHOOSE q \in 0..a : q * b >= a /\ (q - 1) * b < a

\* C16: every emitted wave entry with a non-empty waveform has
\* downsample_factor = max(1, floor(120 * samprate / (width * POINTS_PER_PIXEL))),
\* downsampled_length = ceil(original_length / downsample_factor) and
\* effective_samprate = samprate / downsample_factor, the width being 1000
\* for a client that never set one.
C16_DownsampleNumbers ==
    (down.called /\ down.n > 0) =>
      LET width_px == IF down.width_set THEN down.width ELSE 1000
          f == Max(1, FloorDiv(120 * down.samprate, width_px * POINTS_PER_PIXEL))
      IN /\ down.width = width_px
         /\ down.entry.downsample_factor = f
         /\ down.entry.original_length = down.n
         /\ down.entry.downsampled_length = CeilDiv(down.n, f)
         /\ Len(down.entry.waveform) = down.entry.downsampled_length
         /\ down.entry.effective_samprate = Ratio(down.samprate, f)
         /\ down.entry.samprate = down.samprate

\* C16 witness: an entry downsampled for a client that never set a width,
\* by a factor that does not divide its length.
C16_Witness ==
    /\ down.called
    /\ ~down.width_set
    /\ down.n > 0
    /\ down.entry.downsample_factor > 1
    /\ down.n > down.entry.downsample_factor
    /\ down.n % down.entry.downsample_factor # 0

\* C17: after any sequence of circular_write calls on a station,
\* assemble_last_window returns exactly N samples: the last N of N zeros
\* followed by all the samples written, in write order.
C17_WindowIsLastN ==
    window.taken =>
      /\ Len(window.data) = NSAMPLE
      /\ window.data =
           LastOf(Zeros \o SubSeq(disp_written[window.station], 1, window.count),
                  NSAMPLE)

\* C17 witness: a window assembled from a buffer that has wrapped and whose
\* write index is not 0.
C17_Witness ==
    /\ window.taken
    /\ window.count > NSAMPLE
    /\ window.idx # 0

AllShort(station) ==
    \A i \in DOMAIN disp_sizes[station] : disp_sizes[station][i] < NSAMPLE

\* C18: every station buffer has length N and a write index in 0..N-1;
\* after writes each shorter than N the index is the number of samples
\* written modulo N, and after a write of N or more samples it is 0.
C18_BufferShape ==
    \A station \in DOMAIN buffers :
        /\ Len(buffers[station]) = NSAMPLE
        /\ write_idx[station] \in 0..(NSAMPLE - 1)
        /\ AllShort(station) =>
              write_idx[station] = Len(disp_written[station]) % NSAMPLE
        /\ (/\ disp_sizes[station] # <<>>
            /\ disp_sizes[station][Len(disp_sizes[station])] >= NSAMPLE)
              => write_idx[station] = 0

\* C18 witness: a station written in short packets past the end of its
\* buffer, and another whose index a full-window packet has reset after
\* it had moved.
C18_Witness ==
    /\ \E station \in DOMAIN buffers :
          /\ AllShort(station)
          /\ Len(disp_written[station]) > NSAMPLE
          /\ write_idx[station] # 0
    /\ \E station \in DOMAIN buffers :
          /\ Len(disp_sizes[station]) >= 2
          /\ disp_sizes[station][Len(disp_sizes[station])] >= NSAMPLE
          /\ disp_sizes[station][Len(disp_sizes[station]) - 1] \in 1..(NSAMPLE - 1)

\* C2: in every tick fanned out, the packet built for a client holds exactly
\* the wave_ids the client's subscription covers, a client whose subscription
\* covers none of the tick (an empty subscription included) is sent no
\* packet, and a fanout ends having sent to every client that stayed
\* connected, with the same subscription, and is covered by the tick.
C2_TickReachesCovered ==
    /\ \A i \in DOMAIN fan_log :
          /\ fan_log[i].frame = Covered(fan_log[i].sub, DOMAIN wave_batch)
          /\ fan_log[i].sent <=> Covered(fan_log[i].sub, DOMAIN wave_batch) # {}
    /\ \A ws \in DOMAIN wave_missed :
          Covered(wave_missed[ws], DOMAIN wave_batch) = {}

C4_SubscribeReplaces ==
    [][\A ws \in Conn, stations \in StationLists :
          Subscribe(ws, stations) =>
            /\ subscribed_stations'[ws] = Range(stations)
            /\ DOMAIN subscribed_stations' = DOMAIN subscribed_stations
            /\ \A other \in DOMAIN subscribed_stations \ {ws} :
                  subscribed_stations'[other] = subscribed_stations[other]
            /\ client_resolutions' = client_resolutions
            /\ active_connections' = active_connections]_vars

\* C4 witness: a subscribe() has replaced a set by a list that does not hold
\* all of it, while another connection holds a set and a resolution.
C4_Witness ==
    /\ last_subscribe.ws \in DOMAIN subscribed_stations
    /\ ~(last_subscribe.before \subseteq Range(last_subscribe.stations))
    /\ subscribed_stations[last_subscribe.ws] = Range(last_subscribe.stations)
    /\ \E other \in DOMAIN subscribed_stations \ {last_subscribe.ws} :
          /\ subscribed_stations[other] # {}
          /\ other \in DOMAIN client_resolutions

\* C21: a Z-channel stream that appears on the bus while the reader runs is
\* eventually tailed and its records read; a tailed key is never removed,
\* and only keys ending in Z are tailed.
C21_NewKeysTailed ==
    /\ [](\A k \in DOMAIN stream_ids : EndsWithZ(k[2]))
    /\ [][DOMAIN stream_ids \subseteq DOMAIN stream_ids']_vars
    /\ \A k \in LiveKeys :
          (bus[k] # <<>>) ~> (k \in DOMAIN stream_ids /\ stream_ids[k] > 0)

\* the bus position of the record of stream k that carries sample v
BusPos(k, v) == CHOOSE i \in DOMAIN bus[k] : v \in Range(bus[k][i].data)

\* C22: within one stream, records are handed to the fanout in bus append
\* order: of two delivered records the one appended first is never
\* delivered after the other, and none is delivered again.
C22_DeliveredInBusOrder ==
    \A k \in Keys :
        \A i, j \in DOMAIN delivered[k] :
            i < j => BusPos(k, delivered[k][i]) < BusPos(k, delivered[k][j])

\* C22 witness: two records of one stream delivered in two ticks.
C22_Witness ==
    \E k \in Keys : Len(delivered[k]) >= 2 /\ wpc = "sleep"

\* the SCNL of a record of stream k after legacy-naming normalization
NormalizedId(k, m) ==
    LET wave == convert_to_tsmip_legacy_naming(
                    [network |-> m.network, station |-> k[1],
                     location |-> m.location, channel |-> k[2]])
    IN WaveIdOf(wave.network, wave.station, wave.location, wave.channel)

\* C23: every wave_id emitted is the normalized SCNL of its record (SM and
\* 01 for a record of network TW), and the historical path gives the
\* record the same wave_id as the live path.
C23_EmittedIdNormalized ==
    \A wave_id \in DOMAIN wave_batch :
        \A i \in DOMAIN bus[wave_batch[wave_id].key] :
            LET k == wave_batch[wave_id].key
                m == bus[k][i]
            IN m.data = wave_batch[wave_id].waveform =>
                 /\ wave_id = NormalizedId(k, m)
                 /\ wave_id = hist_wave_id(k, m)

\* C24: the queue never holds more than QUEUE_MAXSIZE messages; a message
\* that arrives at a full queue is discarded, the queued messages and their
\* order stay as they are and drops_queue_full grows by one; otherwise the
\* message is queued last; and a full queue does not keep the reader from
\* handing over its next message.
C24_DropNewest ==
    /\ [](Len(message_queue) <= QUEUE_MAXSIZE)
    /\ [][(scheduled # <<>> /\ scheduled' = Tail(scheduled)) =>
            IF Len(message_queue) >= QUEUE_MAXSIZE
            THEN /\ message_queue' = message_queue
                 /\ drops_queue_full' = drops_queue_full + 1
            ELSE /\ message_queue' = Append(message_queue, Head(scheduled))
                 /\ drops_queue_full' = drops_queue_full]_vars
    /\ [][reads' = reads + 1 => scheduled' = Append(scheduled, reads')]_vars
    /\ []((reads < MaxMsgs) => ENABLED ReaderRead)

\* C24 witness: a full queue after a message was dropped at it, and the
\* reader handing over a further message.
C24_Witness ==
    /\ Len(message_queue) = QUEUE_MAXSIZE
    /\ drops_queue_full > 0
    /\ scheduled # <<>>

\* C25: a bus error in the key scan or in a poll leaves the reader running:
\* the failed call changes no last-seen id and removes no key, the reader
\* backs off and retries, and after errors every record read has been
\* delivered exactly once, those appended during the outage included.
C25_OutageLosesNothing ==
    /\ [][(bus_error.last = "none" /\ bus_error'.last # "none") =>
            /\ wpc' = "sleep"
            /\ \A k \in DOMAIN stream_ids :
                  k \in DOMAIN stream_ids' /\ stream_ids'[k] = stream_ids[k]
            /\ \A k \in DOMAIN stream_ids' \ DOMAIN stream_ids :
                  stream_ids'[k] = 0]_vars
    /\ [](bus_error.seen =>
            \A k \in DOMAIN stream_ids :
                SelectSeq(delivered[k], LAMBDA v : v > bus_error.mark)
                  = SelectSeq(ReadSamples(k), LAMBDA v : v > bus_error.mark))

\* C26: a malformed record is dropped alone: every well-formed record a
\* poll has returned, on the same key or on another, has been handed to
\* the fanout exactly once.
C26_MalformedDroppedAlone ==
    \A k \in Keys :
        \A id \in Range(returned[k]) :
            (bus[k][id].aligned /\ bus[k][id].data # <<>>) =>
               Cardinality({j \in DOMAIN delivered[k] :
                              delivered[k][j] \in Range(bus[k][id].data)}) = 1

\* C5: the live path never blocks on a stalled client: whenever the reader
\* is suspended in a send, it gets past that send (and so goes on to read
\* the bus and to serve the other clients).
C5_ReaderNeverBlocks == (wpc = "send") ~> (wpc # "send")

\* C6: a connection on which a fanout send has failed is closed and removed
\* from the registry.
C6_FailedSendPurged ==
    \A ws \in send_failed :
        /\ ws \notin Range(active_connections)
        /\ ws \notin DOMAIN subscribed_stations

\* C7: a connection whose handler has ended is in none of
\* active_connections, subscribed_stations and client_resolutions.
C7_ClosedIsPurged ==
    \A ws \in Conn :
        hpc[ws] = "closed" =>
          /\ ws \notin Range(active_connections)
          /\ ws \notin DOMAIN subscribed_stations
          /\ ws \notin DOMAIN client_resolutions

\* C8: a finished pick or eew broadcast has called send on every client that
\* was connected from its beginning to its end.
C8_BroadcastReachesAll == \A k \in Kinds : bc_missed[k] = {}

\* the pick records of the queried range
RangePicks ==
    {feed["pick"][i] : i \in {j \in hist_range[1]..hist_range[2] :
                                feed["pick"][j].kind = "dict"}}

MaxUpdateSec(key) ==
    CHOOSE u \in {m.update_sec : m \in {x \in RangePicks : PickKey(x) = key}} :
        \A m \in RangePicks : PickKey(m) = key => m.update_sec <= u

\* C9: get_historical_picks returns one pick for each (station, channel,
\* pick_time) of the queried range and no other, each with the largest
\* update_sec its key has in the range.
C9_OnePickPerKey ==
    hist_range # <<0, 0>> =>
      /\ Len(hist_picks) = Cardinality({PickKey(m) : m \in RangePicks})
      /\ \A i \in DOMAIN hist_picks :
            /\ hist_picks[i].type = "pick"
            /\ hist_picks[i].content \in RangePicks
      /\ \A m \in RangePicks :
            \E i \in DOMAIN hist_picks :
               /\ PickKey(hist_picks[i].content) = PickKey(m)
               /\ hist_picks[i].content.update_sec = MaxUpdateSec(PickKey(m))

\* C9 witness: the range holds a key twice, the larger update_sec first, and
\* one pick is returned.
C9_Witness ==
    /\ hist_range = <<1, 2>>
    /\ Len(feed["pick"]) >= 2
    /\ feed["pick"][1].kind = "dict" /\ feed["pick"][2].kind = "dict"
    /\ PickKey(feed["pick"][1]) = PickKey(feed["pick"][2])
    /\ feed["pick"][1].update_sec > feed["pick"][2].update_sec
    /\ Len(hist_picks) = 1

\* C10: on the live path a client is sent a second pick_packet of a key only
\* when it carries a larger update_sec than the one sent before.
C10_NoRetransmission ==
    \A i, j \in DOMAIN sent_log["pick"] :
        LET a == sent_log["pick"][i]
            b == sent_log["pick"][j]
        IN (i < j /\ a.to = b.to /\ a.packet.parsed /\ b.packet.parsed
            /\ PickKey(a.packet.raw) = PickKey(b.packet.raw))
           => b.packet.raw.update_sec > a.packet.raw.update_sec


\* Clients that connect while picks and alerts are broadcast, waves are
\* fanned out and history is requested, with the order of the send_json
\* calls on each connection kept.  The first client asks for history before
\* it subscribes; the wave stream gets one record, and either the pick or
\* the eew stream gets one.
NextFirst ==
    \/ \E ws \in 1..2 : Connect(ws)
    \/ \E ws \in 1..2 : InitSent(ws)
    \/ hq.pc # "waves" /\ Subscribe(1, <<STA_A>>)
    \/ TotalRecs = 0 /\ XAddWave(<<STA_A, HLZ>>, <<1>>)
    \/ WavePoll(TRUE)
    \/ WaveSendOk
    \/ WaveWake
    \/ /\ \A k \in Kinds : feed[k] = <<>>
       /\ \/ XAddFeed("pick", PickRec(STA_A, HLZ, 1, 0, 0))
          \/ XAddFeed("eew", TextRec)
    \/ \E k \in Kinds : BIssue(k)
    \/ \E k \in Kinds : BReturn(k)
    \/ \E k \in Kinds : BSendOk(k)
    \/ /\ 1 \in DOMAIN subscribed_stations
       /\ subscribed_stations[1] = {}
       /\ HistRequest(1, <<STA_A>>, [k \in LiveKeys |-> <<Chunk(0, 5)>>], "none")
    \/ HistSend
    \/ HistPicksBatch

InitFirst ==
    /\ InitCore /\ flt_in = NoInput /\ audit = FALSE /\ sp = NoSignal
    /\ wire = [ws \in Conn |-> <<>>]

SpecFirst == InitFirst /\ [][NextFirst]_vars

\* C27: on every connection the first frame sent is connect_init, and it is
\* sent once: every wave_packet, pick_packet, eew_packet and historical
\* frame of a connection follows the connection's connect_init, also when a
\* broadcast reaches the connection while connect_init is still being sent.
C27_ConnectInitFirst ==
    \A ws \in Conn :
        \A i \in 1..Len(wire[ws]) : (wire[ws][i] = "connect_init") <=> (i = 1)

\* a broadcast frame is sent to a connection whose connect_init has not
\* completed
C27_Witness ==
    \E ws \in Conn :
        /\ hpc[ws] = "init"
        /\ Len(wire[ws]) >= 2
        /\ wire[ws][2] \in {"pick_packet", "eew_packet"}


\* One client that asks for history of streams that hold data, and goes
\* away at any moment.
NextGone ==
    \/ Connect(1)
    \/ InitSent(1)
    \/ Subscribe(1, <<STA_A>>)
    \/ XAddFeed("pick", PickRec(STA_A, HLZ, 1, 0, 0))
    \/ \E stations \in HistLists, history \in Histories :
          HqScan(1, stations, history)
    \/ HqRange
    \/ HqSendCall
    \/ HqSendOk
    \/ HqSendFail
    \/ HqSlept
    \/ HqPicks
    \/ HqPicksOk
    \/ HqPicksFail
    \/ ClientGone(1)
    \/ Receiving(1) /\ Disconnect(1)

SpecGone == Init /\ [][NextGone]_vars

\* C28: once the client of a historical request has gone away, the request
\* issues no further bus operation (scan, range-scan of the waves,
\* range-scan of the picks), and when the handler has ended the connection
\* is in none of the registry's indexes.  (No frame is sent either: a send
\* to a client that has gone away raises.)
C28_DisconnectCancels ==
    /\ hq.late = <<>>
    /\ \A ws \in Conn :
          hpc[ws] = "closed" =>
              /\ ws \notin Range(active_connections)
              /\ ws \notin DOMAIN subscribed_stations
              /\ ws \notin DOMAIN client_resolutions


\* batch_signal_processing on every batch of short arrays.
InitBatch ==
    /\ InitCore /\ flt_in = NoInput /\ audit = FALSE /\ wire = NoWire
    /\ sp \in {[NoSignal EXCEPT !.pc = "batch", !.waveforms = waveforms] :
                 waveforms \in SigBatches}

NextBatch == BatchCall

SpecBatch == InitBatch /\ [][NextBatch]_vars

\* C29: batch_signal_processing returns one output per input, the i-th as
\* long as the i-th input, and each output has the values signal_processing
\* returns for that input alone, also when the arrays differ in length.
C29_BatchIsIndividual ==
    sp.pc = "done" =>
        /\ Len(sp.batch) = Len(sp.waveforms)
        /\ \A i \in 1..Len(sp.waveforms) :
              /\ Len(sp.batch[i]) = Len(sp.waveforms[i])
              /\ SameValues(sp.batch[i], sp.single[i])

\* The historical taper on processed traces.
InitTaper ==
    /\ InitCore /\ flt_in = NoInput /\ audit = FALSE /\ wire = NoWire
    /\ sp \in {[NoSignal EXCEPT !.pc = "taper", !.waveforms = <<trace>>] :
                 trace \in Traces}

NextTaper == TaperCall \/ TaperAgain

SpecTaper == InitTaper /\ [][NextTaper]_vars

\* C30: the taper applied twice gives the values of the taper applied once,
\* and either way the samples from index min(len, 200) on are those of the
\* processed trace.
C30_TaperIdempotent ==
    sp.pc = "twice" =>
        /\ SameValues(sp.twice, sp.once)
        /\ \A i \in 1..Len(sp.waveforms[1]) :
              i > Min(Len(sp.waveforms[1]), TAPER_SAMPLES) =>
                  /\ SameValue(sp.once[i], sp.waveforms[1][i])
                  /\ SameValue(sp.twice[i], sp.waveforms[1][i])


\* The dispatcher's reader task, statement by statement, and the handlers
\* that take snapshots.
NextSnap ==
    \/ \E station \in Stations, n \in WriteSizes : ReaderEntry(station, n)
    \/ WriteBuffer
    \/ WriteIndex
    \/ ReaderForwarded
    \/ \E station \in Stations : Snapshot(station)

SpecSnap == Init /\ [][NextSnap]_vars

\* the numbers of samples a station had been given at the end of each of
\* its writes
RECURSIVE WriteEnds(_)
WriteEnds(sizes) ==
    IF sizes = <<>> THEN {0}
    ELSE {0} \cup {Head(sizes) + e : e \in WriteEnds(Tail(sizes))}

\* C31: a snapshot is the window of the station as some number of complete
\* writes left it: the last N of the samples written by the writes that
\* had completed, never the buffer of a write in progress read with the
\* index of before or after it.
C31_SnapshotBetweenWrites ==
    window.taken =>
        /\ window.count \in WriteEnds(disp_sizes[window.station])
        /\ window.data =
             LastOf(Zeros \o SubSeq(disp_written[window.station], 1,
                                    window.count), NSAMPLE)

\* C31 witness: a snapshot taken while the reader task is between its write
\* to the station and its next read, the buffer having wrapped.
C31_Witness ==
    /\ window.taken
    /\ window.during = "forward"
    /\ reader.station = window.station
    /\ window.count > NSAMPLE
    /\ window.idx # 0


\* The pick listener of the ring, with time passing.
NextPicks ==
    \/ \E msg \in EwMessages : PickListenerStep(msg)
    \/ PickListenerIdle
    \/ EwTick

SpecPicks == Init /\ [][NextPicks]_vars

\* C32: a turn of the pick listener adds or replaces an entry of pick_buffer
\* only for a pick whose update_sec is 2 (and which is not older than 10 s),
\* under that pick's id; "Restarting" and short messages, picks with another
\* update_sec and stale picks add and replace nothing.  A fresh pick with
\* update_sec 2 is in pick_buffer after the turn that reads it.
C32_OnlyUpdateSecTwo ==
    [][/\ \A id \in DOMAIN pick_buffer' :
             (id \notin DOMAIN pick_buffer \/ pick_buffer'[id] # pick_buffer[id])
                => /\ ew_msg'.kind = "pick"
                   /\ ew_msg'.update_sec = GATE_UPDATE_SEC
                   /\ ~(ew_now > ew_msg'.pick_time + STALE_AFTER)
                   /\ id = EwPickId(ew_msg')
       /\ (/\ ew_msg' # ew_msg
           /\ ew_msg'.kind = "pick"
           /\ ew_msg'.update_sec = GATE_UPDATE_SEC
           /\ ~(ew_now > ew_msg'.pick_time + STALE_AFTER))
             => /\ EwPickId(ew_msg') \in DOMAIN pick_buffer'
                /\ pick_buffer'[EwPickId(ew_msg')].pick = ew_msg']_vars

\* C32 witness: a later update of a stored pick has been read and the entry
\* is still the one stored at update_sec 2.
C32_Witness ==
    /\ ew_msg.kind = "pick"
    /\ ew_msg.update_sec > GATE_UPDATE_SEC
    /\ EwPickId(ew_msg) \in DOMAIN pick_buffer
    /\ pick_buffer[EwPickId(ew_msg)].pick.update_sec = GATE_UPDATE_SEC
    /\ pick_buffer[EwPickId(ew_msg)].pick.pick_time = ew_msg.pick_time


\* get_picks on every short range of pick records.
NextAdapter ==
    \E messages \in AdapterRanges, max_picks \in 1..2 : GetPicks(messages, max_picks)

SpecAdapter == Init /\ [][NextAdapter]_vars

\* C33: get_picks returns at most one pick per station, the one with the
\* highest update_sec of all the station's records in the range, in
\* ascending order of pick_time, and at most max_picks of them.
C33_BestPickPerStation ==
    gp.done =>
        /\ Len(gp.out) <= gp.max_picks
        /\ \A i, j \in DOMAIN gp.out :
              /\ i < j => gp.out[i].pick_time <= gp.out[j].pick_time
              /\ i # j => gp.out[i].station # gp.out[j].station
        /\ \A i \in DOMAIN gp.out :
              /\ \E k \in DOMAIN gp.messages : gp.messages[k] = gp.out[i]
              /\ \A k \in DOMAIN gp.messages :
                    gp.messages[k].station = gp.out[i].station
                        => gp.messages[k].update_sec <= gp.out[i].update_sec


\* The three reader tasks and shutdown_event; the event loop runs what can
\* run.
NextShutdown ==
    \/ \E t \in ReaderTasks, to \in {"xread", "send", "sleep", "retry_sleep"} :
          TaskStep(t, to)
    \/ \E t \in ReaderTasks : TaskError(t)
    \/ ShutdownEvent
    \/ \E t \in ReaderTasks : TaskCancelled(t)
    \/ GatherReturns

FairShutdown ==
    /\ Init /\ [][NextShutdown]_vars
    /\ \A t \in ReaderTasks : WF_vars(TaskCancelled(t))
    /\ WF_vars(GatherReturns)

\* C34: once shutdown_event has cancelled the reader tasks, each of them
\* ends and the gather of shutdown_event returns.
C34_ShutdownTerminates ==
    (shutdown = "gather") ~>
        (shutdown = "done" /\ \A t \in ReaderTasks : background_tasks[t].pc = "done")

\* C34 witness: the shutdown has completed, one task having been cancelled
\* in a send, one in its xread and one in the sleep of its except clause.
C34_Witness ==
    /\ shutdown = "done"
    /\ \A t \in ReaderTasks : background_tasks[t].pc = "done"
    /\ \E t \in ReaderTasks : background_tasks[t].cancelled_at = "send"
    /\ \E t \in ReaderTasks : background_tasks[t].cancelled_at = "xread"
    /\ \E t \in ReaderTasks : background_tasks[t].cancelled_at = "retry_sleep"


\* C35: when a client connects or disconnects while a fanout is suspended
\* in a send, no other client that stays connected with a subscription
\* covering the tick is left without that tick's wave_packet.
C35_ChurnKeepsOthers ==
    \A ws \in Conn :
        ~(/\ ws \in DOMAIN wave_missed
          /\ Covered(wave_missed[ws], DOMAIN wave_batch) # {})


\* Clients that set their display width between the ticks of the wave
\* reader, and stay connected.
ResWidths == {0 - 500, 0, 1000}

NextRes ==
    \/ \E ws \in Conn : wpc = "poll" /\ Connect(ws)
    \/ \E ws \in Conn : InitSent(ws)
    \/ \E ws \in Conn, stations \in LiveLists : Subscribe(ws, stations)
    \/ \E ws \in Conn, width \in ResWidths : wpc = "poll" /\ SetResolution(ws, width)
    \/ \E k \in LiveKeys : wpc # "send" /\ XAddWave(k, <<1>>)
    \/ \E scan \in BOOLEAN : WavePoll(scan)
    \/ WaveSendOk
    \/ WaveWake

SpecRes == Init /\ [][NextRes]_vars

\* the frame of the tick can be prepared for the client's width
PreparesFrame(ws) ==
    \A wave_id \in DOMAIN wave_batch :
        calculate_downsample_factor(wave_batch[wave_id].samprate,
                                    ResolutionOf(ws)) # RAISES

\* C36: whatever width a client has set, every other client whose
\* subscription covers a wave of the tick receives the tick's wave_packet:
\* a failure preparing one client's frame does not end the fanout.
C36_BadWidthKeepsOthers ==
    \A ws \in DOMAIN wave_missed :
        PreparesFrame(ws) => Covered(wave_missed[ws], DOMAIN wave_batch) = {}


\* One socket of the dispatcher: live packets forwarded by the reader loop
\* and windows fetched by the client.
NextSocket ==
    \/ DispSubscribe
    \/ LoopSendMeta
    \/ LoopSendPayload
    \/ LoopForwarded
    \/ FetchSendMeta
    \/ FetchSendBytes
    \/ FetchDone

SpecSocket == Init /\ [][NextSocket]_vars

\* C37: on a connection of the dispatcher every binary frame comes right
\* after the meta frame sent with it by the same coroutine: the pair of the
\* reader loop and the pair of fetch_window are never interleaved.
C37_PairsNotInterleaved ==
    \A i \in 1..Len(dws.frames) :
        dws.frames[i].kind = "binary" =>
            /\ i > 1
            /\ dws.frames[i - 1].kind # "binary"
            /\ dws.frames[i - 1].by = dws.frames[i].by


\* the messages the proxy holds: scheduled for the queue, in the queue, or
\* in the broadcaster's hands
InFlight ==
    Len(scheduled) + Len(message_queue) + (IF payload = NoPayload THEN 0 ELSE 1)

NextEew ==
    \/ \E ws \in Conn : Connect(ws)
    \/ \E ws \in Conn : InitSent(ws)
    \/ XAddFeed("eew", TextRec)
    \/ BIssue("eew")
    \/ BReturn("eew")
    \/ BSendOk("eew")

FairEew ==
    /\ Init
    /\ [][NextEew]_vars
    /\ WF_vars(BIssue("eew"))
    /\ WF_vars(BReturn("eew"))
    /\ WF_vars(BSendOk("eew"))

\* the reader has taken the i-th record of the eew stream from a poll and
\* handed it to send_eew_packet
EewTaken(i) == last_id["eew"] >= i

\* C39: every record appended to the eew stream after the reader issued its
\* first poll is eventually taken by the reader and broadcast, also when it
\* is appended between the return of an empty poll and the next poll.
C39_EveryEewBroadcast ==
    \A i \in 1..MaxEews :
        [](/\ first_tip["eew"] # NotStarted
           /\ i > first_tip["eew"]
           /\ Len(feed["eew"]) >= i
           => <>EewTaken(i))


\* The Socket.IO sessions and the wave emitter.
NextEmit ==
    \/ \E sid \in Conn : SioConnect(sid)
    \/ \E sid \in Conn, stations \in SUBSET Stations :
          handle_subscribe_stations(sid, stations)
    \/ \E sid \in Conn : handle_disconnect(sid)
    \/ \E batch \in SUBSET Stations : wave_emitter(batch)

SpecEmit == Init /\ [][NextEmit]_vars

\* C40: a session receives a wave entry only for a station of its own
\* subscription, whatever the other sessions have subscribed to.
C40_OnlyOwnStations ==
    \A sid \in sio.wave_packet.to :
        \A station \in sio.wave_packet.data :
            /\ sid \in DOMAIN sio.wave_packet.subs
            /\ station \in sio.wave_packet.subs[sid]

====
